---------------------------- MODULE Spec2Model ----------------------------
(***************************************************************************)
(* Receipt text-extraction pipeline of oneclick (utils/receiptParser):     *)
(* extractReceiptData, extractVendor, extractDate, formatDate,             *)
(* extractTotal, validateReceiptData, formatReceiptForSharing.             *)
(*                                                                         *)
(* Strings are TLA+ strings; a character is a string of length 1.  The     *)
(* input alphabet is ASCII plus the rupee sign.  Characters outside ASCII  *)
(* that occur in the source are written with one ASCII stand-in each, none *)
(* of which occurs in any input or is special to a regular expression:     *)
(*     "~"  U+20B9 (rupee sign, as receipts carry it)                      *)
(*     "%"  U+201A   "="  U+00C7   ";"  U+03C0                             *)
(*          (the three characters of the parser's rupee literal)           *)
(*     "<"  U+221A   ">"  U+00A9   (inside the one lexicon entry "caf..")  *)
(* Amounts are integers counted in hundredths, which is exact because the  *)
(* amount patterns accept at most two decimals.                            *)
(***************************************************************************)
EXTENDS Integers, Sequences, FiniteSets, TLC

VARIABLES
  text,        \* argument of extractReceiptData in this session (Null or a string)
  today,       \* what new Date() returns now: [d, m, y]
  lastIndex,   \* lastIndex left on the latest todayIndicators RegExp object
  outcome,     \* "none", "returned" or "threw": how the latest call ended
  rec,         \* record returned by the latest extractReceiptData call
  recAt,       \* clock reading during that call
  prev,        \* the call before it: [outcome, rec, at]
  invoked,     \* extractors invoked by the latest extractReceiptData call
  alone,       \* results of the extractors applied alone to the trimmed text
  calls,       \* number of extractReceiptData calls so far
  ticks,       \* number of clock changes so far
  data,        \* ReceiptData handed to validateReceiptData / formatReceiptForSharing
  validation,  \* result of validateReceiptData(data)
  shared,      \* result of formatReceiptForSharing(data)
  dateStr,     \* argument of formatDate
  formatted,   \* result of formatDate(dateStr)
  formattedAt, \* clock reading during formatDate(dateStr)
  cam,         \* the camera screen: its state and where its handler stands
  ocr          \* the extractTextFromImage call in progress

parserVars == <<text, today, lastIndex, outcome, rec, recAt, prev, invoked, alone, calls, ticks>>
previewVars == <<data, validation, shared>>
formatVars == <<dateStr, formatted, formattedAt>>
cameraVars == <<cam, ocr>>
vars == <<text, today, lastIndex, outcome, rec, recAt, prev, invoked, alone, calls, ticks,
          data, validation, shared, dateStr, formatted, formattedAt, cam, ocr>>

Null == "<null>"

(***************************************************************************)
(* Characters and strings                                                  *)
(***************************************************************************)
UpperS == "ABCDEFGHIJKLMNOPQRSTUVWXYZ"
LowerS == "abcdefghijklmnopqrstuvwxyz"
DigitS == "0123456789"

CharAt(s, i) == SubSeq(s, i, i)
CharsOf(s) == {CharAt(s, i) : i \in 1..Len(s)}

Upper == CharsOf(UpperS)
Lower == CharsOf(LowerS)
Digit == CharsOf(DigitS)
Letter == Upper \cup Lower
WordChar == Letter \cup Digit \cup {"_"}
Space == {" ", "\t", "\n", "\r"}

Min(S) == CHOOSE m \in S : \A k \in S : m <= k
Max(S) == CHOOSE m \in S : \A k \in S : m >= k

toLowerChar == [c \in Upper |-> CharAt(LowerS, CHOOSE i \in 1..26 : CharAt(UpperS, i) = c)]
toUpperChar == [c \in Lower |-> CharAt(UpperS, CHOOSE i \in 1..26 : CharAt(LowerS, i) = c)]

RECURSIVE toLowerCase(_)
toLowerCase(s) ==
  IF Len(s) = 0 THEN ""
  ELSE IF Len(s) = 1 THEN (IF s \in Upper THEN toLowerChar[s] ELSE s)
  ELSE toLowerCase(SubSeq(s, 1, Len(s) \div 2)) \o toLowerCase(SubSeq(s, Len(s) \div 2 + 1, Len(s)))

RECURSIVE toUpperCase(_)
toUpperCase(s) ==
  IF Len(s) = 0 THEN ""
  ELSE IF Len(s) = 1 THEN (IF s \in Lower THEN toUpperChar[s] ELSE s)
  ELSE toUpperCase(SubSeq(s, 1, Len(s) \div 2)) \o toUpperCase(SubSeq(s, Len(s) \div 2 + 1, Len(s)))

\* String.prototype.trim
trim(s) ==
  LET cut(keep) == IF keep = {} THEN "" ELSE SubSeq(s, Min(keep), Max(keep))
  IN cut({i \in 1..Len(s) : CharAt(s, i) \notin Space})

\* String.prototype.includes
includes(s, sub) == \E i \in 1..(Len(s) - Len(sub) + 1) : SubSeq(s, i, i + Len(sub) - 1) = sub

\* String.prototype.indexOf, 0-based, -1 when absent
indexOf(s, sub) ==
  LET first(at) == IF at = {} THEN -1 ELSE Min(at) - 1
  IN first({i \in 1..(Len(s) - Len(sub) + 1) : SubSeq(s, i, i + Len(sub) - 1) = sub})

\* String.prototype.padStart(2, '0')
padStart2(s) == IF Len(s) >= 2 THEN s ELSE IF Len(s) = 1 THEN "0" \o s ELSE "00"

RECURSIVE join(_, _)
join(xs, sep) ==
  IF Len(xs) = 0 THEN ""
  ELSE IF Len(xs) = 1 THEN xs[1]
  ELSE join(SubSeq(xs, 1, Len(xs) \div 2), sep) \o sep
         \o join(SubSeq(xs, Len(xs) \div 2 + 1, Len(xs)), sep)

\* the pieces of s between the positions in cuts (a set of [from, to] runs
\* given as their first and one-past-last index), in order
RECURSIVE pieces(_, _, _)
pieces(s, from, cuts) ==
  LET ahead == {c \in cuts : c[1] >= from}
  IN IF ahead = {} THEN <<SubSeq(s, from, Len(s))>>
     ELSE LET c == CHOOSE c \in ahead : \A o \in ahead : c[1] <= o[1]
          IN <<SubSeq(s, from, c[1] - 1)>> \o pieces(s, c[2], cuts)

\* String.prototype.split(ch) for a one-character separator
splitChar(s, ch) == pieces(s, 1, {<<i, i + 1>> : i \in {k \in 1..Len(s) : CharAt(s, k) = ch}})

\* String.prototype.split(/[C]+/): every maximal run of characters of C separates
splitRuns(s, C) ==
  LET starts == {i \in 1..Len(s) : CharAt(s, i) \in C /\ (i = 1 \/ CharAt(s, i - 1) \notin C)}
      stop(i) == Min({k \in (i + 1)..(Len(s) + 1) : k = Len(s) + 1 \/ CharAt(s, k) \notin C})
  IN IF s = "" THEN <<"">> ELSE pieces(s, 1, {<<i, stop(i)>> : i \in starts})

\* decimal digits of a natural number (Number.prototype.toString)
numToString(n) == ToString(n)

digitVal(c) == (CHOOSE i \in 1..10 : CharAt(DigitS, i) = c) - 1

\* value of a string of decimal digits
RECURSIVE digitsVal(_)
digitsVal(s) == IF s = "" THEN 0 ELSE 10 * digitsVal(SubSeq(s, 1, Len(s) - 1)) + digitVal(CharAt(s, Len(s)))

(***************************************************************************)
(* Regular expressions.  A pattern is a tree; Run matches a stack of       *)
(* pattern nodes (the rest of the pattern) against the subject S from      *)
(* position i the way the backtracking matcher of JavaScript does: a       *)
(* quantifier takes as much as it can and gives back only when the rest    *)
(* fails, alternatives are tried left to right.  The result is the match   *)
(* JavaScript reports: its end (one past the last character) and the       *)
(* extent of capture group 1.  Under the i flag the subject is lower-cased *)
(* and the pattern is written in lower case (ASCII letters only).          *)
(* No quantified sub-pattern of the source can match the empty string, so  *)
(* the empty-iteration rule of the language is never exercised.            *)
(***************************************************************************)
Inf == 1000000

Lit(s) == [t |-> "lit", s |-> s]                      \* literal text
Cls(C, lo, hi) == [t |-> "cls", C |-> C, lo |-> lo, hi |-> hi]   \* [C]{lo,hi}, greedy
One(C) == Cls(C, 1, 1)
Cat(xs) == [t |-> "cat", xs |-> xs]                   \* concatenation
Alt(xs) == [t |-> "alt", xs |-> xs]                   \* a|b|c
Opt(x) == [t |-> "opt", x |-> x]                      \* (?:x)?
Star(x) == [t |-> "star", x |-> x]                    \* (?:x)*
Grp(x) == [t |-> "grp", x |-> x]                      \* capture group 1
Bol == [t |-> "bol"]                                  \* ^ (no m flag)

NoCap == <<0, 0>>
Fail == [ok |-> FALSE]

\* number of consecutive characters of C from position i, at most hi
RECURSIVE runLen(_, _, _, _)
runLen(S, i, C, hi) ==
  IF hi = 0 \/ i > Len(S) \/ CharAt(S, i) \notin C THEN 0
  ELSE 1 + runLen(S, i + 1, C, hi - 1)

RECURSIVE Run(_, _, _, _)
Run(S, stack, i, cap) ==
  IF stack = <<>> THEN [ok |-> TRUE, end |-> i, cap |-> cap]
  ELSE LET h == Head(stack)
           r == Tail(stack)
       IN CASE h.t = "lit" ->
                 IF i + Len(h.s) - 1 <= Len(S) /\ SubSeq(S, i, i + Len(h.s) - 1) = h.s
                 THEN Run(S, r, i + Len(h.s), cap) ELSE Fail
            [] h.t = "cls" ->
                 LET n == runLen(S, i, h.C, h.hi)
                     f == [k \in h.lo..n |-> Run(S, r, i + k, cap)]
                     oks == {k \in h.lo..n : f[k].ok}
                 IN IF oks = {} THEN Fail ELSE f[Max(oks)]
            [] h.t = "cat" -> Run(S, h.xs \o r, i, cap)
            [] h.t = "alt" ->
                 LET f == [k \in 1..Len(h.xs) |-> Run(S, <<h.xs[k]>> \o r, i, cap)]
                     oks == {k \in 1..Len(h.xs) : f[k].ok}
                 IN IF oks = {} THEN Fail ELSE f[Min(oks)]
            [] h.t = "opt" ->
                 LET with == Run(S, <<h.x>> \o r, i, cap)
                 IN IF with.ok THEN with ELSE Run(S, r, i, cap)
            [] h.t = "star" ->
                 LET more == Run(S, <<h.x, h>> \o r, i, cap)
                 IN IF more.ok THEN more ELSE Run(S, r, i, cap)
            [] h.t = "grp" -> Run(S, <<h.x, [t |-> "end", s |-> i]>> \o r, i, cap)
            [] h.t = "end" -> Run(S, r, i, <<h.s, i>>)
            [] h.t = "bol" -> IF i = 1 THEN Run(S, r, i, cap) ELSE Fail

\* the match attempted at every start position of S
scan(re, S) == [i \in 1..(Len(S) + 1) |-> Run(S, <<re>>, i, NoCap)]

\* RegExp.prototype.exec on a g-flagged pattern whose lastIndex is li
\* (0-based): the leftmost match starting at or after li, else none
execAt(sc, li) ==
  LET starts == {i \in DOMAIN sc : i > li /\ sc[i].ok}
  IN IF starts = {} THEN [ok |-> FALSE, lastIndex |-> 0]
     ELSE LET i == Min(starts)
          IN [ok |-> TRUE, index |-> i, end |-> sc[i].end, cap |-> sc[i].cap,
              lastIndex |-> sc[i].end - 1]

\* RegExp.prototype.test, and the lastIndex it leaves behind
test(re, S, li) == execAt(scan(re, S), li)

\* test() on a pattern without the g flag, or a fresh one
matches(re, S) == \E i \in 1..(Len(S) + 1) : Run(S, <<re>>, i, NoCap).ok

\* while ((match = pattern.exec(text)) !== null): all matches from lastIndex
\* li on, each search resuming where the previous match ended
RECURSIVE execLoop(_, _)
execLoop(sc, li) ==
  LET from(m) == IF m.ok THEN <<m>> \o execLoop(sc, m.lastIndex) ELSE <<>>
  IN from(execAt(sc, li))

execAll(re, S) == execLoop(scan(re, S), 0)

\* String.prototype.replace(re, repl) for a g-flagged pattern; S is the
\* subject the pattern sees (s, or s lower-cased under the i flag)
replaceAll(s, S, re, repl) ==
  LET put(ms) ==
        IF ms = <<>> THEN s
        ELSE join([k \in 1..Len(ms) |->
                     SubSeq(s, IF k = 1 THEN 1 ELSE ms[k - 1].end, ms[k].index - 1) \o repl], "")
               \o SubSeq(s, ms[Len(ms)].end, Len(s))
  IN put(execAll(re, S))

D == Digit
Sp == Space

(***************************************************************************)
(* Inputs of the model                                                     *)
(***************************************************************************)
\* the end-to-end receipt of the specification
EndToEnd == "McDonald's India\nDate: 07/08/2025\nBig Mac Meal - ~350.00\nTotal: ~649.00\nThank you!"

\* receipt texts handed to extractReceiptData
Texts == {
  EndToEnd,
  "",                                    \* empty
  "   ",                                 \* blank
  " \t\n",
  "x",                                   \* nothing to find
  "  Joe's Diner \n",                    \* a vendor only
  "bill today",                          \* a date only
  "45",                                  \* a total only
  "Joe's Diner\ntoday",                  \* vendor and date
  "Joe's Diner\nTotal $12.50",           \* vendor and total
  "07/08/2025",                          \* date and total
  "Starbucks",
  "STARBUCKS COFFEE\nStarbucks",
  "Starbucks\nmore",
  "Invoice #5\nStarbucks Coffee",
  "Total 00",                            \* amounts that are not positive
  "Total: 0.00",
  "12:26 PM 3 Jul 24",                   \* 2-digit year
  "07 Jul 24",
  "Paid today",
  "now and now",
  "TOTAL $35.46",
  "Total: ~235.00",
  "7 March 2025",
  "7 Jul 2025",
  "2025-08-07",
  "Total 35\n12 items",
  "Joe\tand  sons ltd.!",
  "Invoice #5\nKFC",
  "www.shop.in\nabc@x.com\nlittle\n",
  "Zorbo",                               \* a vendor by step 3 only
  "x\n\n\n\n\nJoe's Diner",              \* blank lines before a business name
  "x\n\n\n\nZorbo",                      \* blank lines before a vendor name
  "bill reliance digital",               \* lexicon entries, reached by step 2
  "bill more reliance digital",
  "7 Jul 2025\nDate: 07/08/2025",         \* a month-name date before a numeric one
  "1/2/2025 2025-08-07 3/4/2025",         \* two numeric dates of equal score
  "July 7, 2025",
  "7-Jul-2025",
  "Date: 7.8.2025",
  "7 July 2025",
  "Bill Date: 7-8-2025 10:15",
  "2025-08-07 today",
  "$12.50 $35.46",                        \* two candidates of equal score
  "$35.46 $12.50",
  "TOTAL $35.46\nVISA $35.46",            \* the same match early and late
  "$20.10 $40.55 paid by card $20.10" }

\* the argument of extractReceiptData: a text, or null
Inputs == Texts \cup {Null}

\* readings of the clock, in the order time passes
Clock == <<[d |-> 31, m |-> 10, y |-> 2026], [d |-> 1, m |-> 11, y |-> 2026],
           [d |-> 31, m |-> 12, y |-> 2099], [d |-> 1, m |-> 1, y |-> 2100]>>
ClockValues == {Clock[k] : k \in 1..Len(Clock)}

\* bounds of a session
MaxCalls == 2
MaxTicks == 1
MaxFlows == 1

(***************************************************************************)
(* OCR service (the Google Vision variant)                                 *)
(***************************************************************************)
\* .replace(/\r\n/g, '\n'): a carriage return before a line feed is dropped
dropCrBeforeLf(s) ==
  join([i \in 1..Len(s) |->
          IF CharAt(s, i) = "\r" /\ i < Len(s) /\ CharAt(s, i + 1) = "\n" THEN "" ELSE CharAt(s, i)], "")

\* .replace(/\r/g, '\n')
crToLf(s) == join([i \in 1..Len(s) |-> IF CharAt(s, i) = "\r" THEN "\n" ELSE CharAt(s, i)], "")

\* .replace(/\n+/g, '\n') and .replace(/\s+/g, ' '): a run becomes one character
collapseRuns(s, C, one) == join(splitRuns(s, C), one)

\* a variant of processOCRResult without .replace(/\s+/g, ' ')
processOCRResultKeepsLines(rawText) ==
  trim(collapseRuns(crToLf(dropCrBeforeLf(rawText)), {"\n"}, "\n"))

\* processOCRResult(rawText)
processOCRResult(rawText) ==
  trim(collapseRuns(collapseRuns(crToLf(dropCrBeforeLf(rawText)), {"\n"}, "\n"), Space, " "))

\* new Date().toLocaleDateString() and toLocaleTimeString(): what they write
\* depends on the locale of the device
Locales == {"en-US", "en-GB"}
toLocaleDateString(now, locale) ==
  IF locale = "en-US" THEN numToString(now.m) \o "/" \o numToString(now.d) \o "/" \o numToString(now.y)
  ELSE padStart2(numToString(now.d)) \o "/" \o padStart2(numToString(now.m)) \o "/" \o numToString(now.y)
toLocaleTimeString(locale) == IF locale = "en-US" THEN "10:15:00 AM" ELSE "10:15:00"

\* getMockOCRResult(): mockReceipts
mockReceipts(now, locale) == <<
  "WHOLE FOODS MARKET\n123 Main Street\nNew York, NY 10001\nTel: (555) 123-4567\n\nDate: "
    \o toLocaleDateString(now, locale) \o "\nTime: " \o toLocaleTimeString(locale)
    \o "\n\nORGANIC BANANAS          $3.49\nGREEK YOGURT             $5.99\n"
    \o "SOURDOUGH BREAD          $4.29\nALMOND MILK              $3.99\n"
    \o "SPINACH ORGANIC          $2.99\n\nSUBTOTAL                $20.75\n"
    \o "TAX                     $1.87\nTOTAL                  $22.62\n\nTHANK YOU FOR SHOPPING!",
  "TARGET STORE #1234\n456 Oak Avenue\nLos Angeles, CA 90210\n\n"
    \o toLocaleDateString(now, locale) \o " " \o toLocaleTimeString(locale)
    \o "\n\nTIDE DETERGENT          $12.99\nPAPER TOWELS             $8.49\n"
    \o "SHAMPOO                  $6.99\nTOOTHPASTE               $4.29\n\n"
    \o "SUBTOTAL                $32.76\nTAX (8.25%)              $2.70\n"
    \o "TOTAL                  $35.46\n\nVISA ENDING IN 1234     $35.46\nAPPROVED\n\n"
    \o "Thanks for shopping at Target!",
  "STARBUCKS COFFEE\n789 Coffee Lane\nSeattle, WA 98101\n\nDate: "
    \o toLocaleDateString(now, locale) \o "\nTime: " \o toLocaleTimeString(locale)
    \o "\n\nGRANDE LATTE             $5.45\nBLUEBERRY MUFFIN         $2.95\n\n"
    \o "SUBTOTAL                 $8.40\nTAX                      $0.76\n"
    \o "TOTAL                   $9.16\n\nCARD PAYMENT            $9.16\n\n"
    \o "Thank you for visiting Starbucks!" >>

\* getMockOCRResult() at the clock reading of a camera session, whatever
\* Math.random() and the locale are
CameraClock == Clock[2]
MockResults == {mockReceipts(CameraClock, l)[k] : l \in Locales, k \in 1..3}

\* what googleVisionOCROptimized resolves with: null, or an OCRResult with
\* its text and its confidence (in hundredths)
GoogleTexts == {"", "ab", "KFC\r\nTotal  $12.50", "Joe's Diner\n\nTotal $12.50\n"}
Confidences == {0, 50, 70, 90}
NullResult == [text |-> Null, confidence |-> 0]
GoogleResults == [text : GoogleTexts, confidence : Confidences] \cup {NullResult}

\* what ocrSpaceAPI resolves with: null, or a trimmed text that is not empty
SpaceResults == {Null, "abc", "Joe's Diner\nTotal $12.50"}

\* googleResult && googleResult.text.trim().length > 5
sufficientResult(r) == r # NullResult /\ Len(trim(r.text)) > 5
\* ocrSpaceResult && ocrSpaceResult.trim().length > 5
sufficientText(t) == t # Null /\ Len(trim(t)) > 5
\* googleResult.confidence && googleResult.confidence < 0.7
lowConfidence(r) == r.confidence # 0 /\ r.confidence < 70
\* retryResult && retryResult.confidence && retryResult.confidence > googleResult.confidence
betterRetry(retry, first) ==
  retry # NullResult /\ retry.confidence # 0 /\ retry.confidence > first.confidence

\* processOCRResult, evaluated once for each text a service gives in the model
RawTexts == GoogleTexts \cup (SpaceResults \ {Null}) \cup MockResults
processOCRCache == [t \in RawTexts |-> processOCRResult(t)]

\* every text extractTextFromImage can resolve with in the model
OcrOutputs == {processOCRCache[t] : t \in RawTexts}

\* the texts the extractors see
CleanInputs == {trim(t) : t \in Texts} \cup OcrOutputs

(***************************************************************************)
(* Vendor extractor                                                        *)
(***************************************************************************)
SpDash == Space \cup {"-"}

\* skipPatterns of isLikelyBusinessName; TRUE marks the i flag
businessSkipPatterns == <<
  \* /^\d+[\s-]*\d+[\s-]*\d+/
  <<Cat(<<Bol, Cls(D, 1, Inf), Cls(SpDash, 0, Inf), Cls(D, 1, Inf), Cls(SpDash, 0, Inf), Cls(D, 1, Inf)>>), FALSE>>,
  \* /tax\s*invoice|receipt|bill/i
  <<Alt(<<Cat(<<Lit("tax"), Cls(Sp, 0, Inf), Lit("invoice")>>), Lit("receipt"), Lit("bill")>>), TRUE>>,
  \* /take\s*away|quick\s*sale/i
  <<Alt(<<Cat(<<Lit("take"), Cls(Sp, 0, Inf), Lit("away")>>), Cat(<<Lit("quick"), Cls(Sp, 0, Inf), Lit("sale")>>)>>), TRUE>>,
  \* /till|cashier|invoice\s*#|salesperson/i
  <<Alt(<<Lit("till"), Lit("cashier"), Cat(<<Lit("invoice"), Cls(Sp, 0, Inf), Lit("#")>>), Lit("salesperson")>>), TRUE>>,
  \* /^\d+:\d+/i
  <<Cat(<<Bol, Cls(D, 1, Inf), Lit(":"), Cls(D, 1, Inf)>>), TRUE>>,
  \* /\d{6,}/
  <<Cls(D, 6, Inf), FALSE>>,
  \* /gst|abn|phone|ph:/i
  <<Alt(<<Lit("gst"), Lit("abn"), Lit("phone"), Lit("ph:")>>), TRUE>> >>

\* /(?:bistro|box|departures|restaurant|cafe|market|store|shop|hotel|bar|grill)/i
businessWords ==
  Alt(<<Lit("bistro"), Lit("box"), Lit("departures"), Lit("restaurant"), Lit("cafe"),
        Lit("market"), Lit("store"), Lit("shop"), Lit("hotel"), Lit("bar"), Lit("grill")>>)

\* pattern.test(line) for a pattern without the g flag
testLine(p, line) == matches(p[1], IF p[2] THEN toLowerCase(line) ELSE line)

hasLetter(line) == \E i \in 1..Len(line) : CharAt(line, i) \in Letter

isLikelyBusinessName(line) ==
  IF Len(line) < 3 THEN FALSE
  ELSE IF \E p \in {businessSkipPatterns[k] : k \in DOMAIN businessSkipPatterns} : testLine(p, line) THEN FALSE
  ELSE IF ~hasLetter(line) \/ Len(line) > 40 THEN FALSE
  ELSE IF matches(businessWords, toLowerCase(line)) THEN TRUE
  ELSE LET count(words) == Len(words) >= 2 /\ Len(words) <= 5
       IN count(SelectSeq(splitRuns(line, Space), LAMBDA w : Len(w) > 0))

\* skipPatterns of isLikelyVendorName
vendorSkipPatterns == <<
  \* /^\d+[\s-]*\d+[\s-]*\d+/
  <<Cat(<<Bol, Cls(D, 1, Inf), Cls(SpDash, 0, Inf), Cls(D, 1, Inf), Cls(SpDash, 0, Inf), Cls(D, 1, Inf)>>), FALSE>>,
  \* /\d{6,}/
  <<Cls(D, 6, Inf), FALSE>>,
  \* /@/
  <<Lit("@"), FALSE>>,
  \* /www\.|\.com|\.in/
  <<Alt(<<Lit("www."), Lit(".com"), Lit(".in")>>), FALSE>>,
  \* /address|add:|addr:/i
  <<Alt(<<Lit("address"), Lit("add:"), Lit("addr:")>>), TRUE>>,
  \* /phone|ph:|tel:|mobile|mob:/i
  <<Alt(<<Lit("phone"), Lit("ph:"), Lit("tel:"), Lit("mobile"), Lit("mob:")>>), TRUE>>,
  \* /gstin|gst|tin|pan/i
  <<Alt(<<Lit("gstin"), Lit("gst"), Lit("tin"), Lit("pan")>>), TRUE>>,
  \* /bill|receipt|invoice/i
  <<Alt(<<Lit("bill"), Lit("receipt"), Lit("invoice")>>), TRUE>>,
  \* /date|time/i
  <<Alt(<<Lit("date"), Lit("time")>>), TRUE>>,
  \* /total|amount|<rupee literal>|rs/i
  <<Alt(<<Lit("total"), Lit("amount"), Lit("%=;"), Lit("rs")>>), TRUE>> >>

isLikelyVendorName(line) ==
  IF Len(line) < 2 THEN FALSE
  ELSE IF \E p \in {vendorSkipPatterns[k] : k \in DOMAIN vendorSkipPatterns} : testLine(p, line) THEN FALSE
  ELSE IF ~hasLetter(line) THEN FALSE
  ELSE IF Len(line) > 50 THEN FALSE
  ELSE TRUE

\* word.charAt(0).toUpperCase() + word.slice(1).toLowerCase()
capitalize(word) == toUpperCase(SubSeq(word, 1, IF Len(word) = 0 THEN 0 ELSE 1)) \o toLowerCase(SubSeq(word, 2, Len(word)))

\* s.split(' ').map(capitalize).join(' ')
titleCase(s) ==
  LET each(words) == join([k \in 1..Len(words) |-> capitalize(words[k])], " ")
  IN each(splitChar(s, " "))

\* .replace(/[^\w\s&'-]/g, '')
VendorNameChars == WordChar \cup Space \cup {"&", "'", "-"}
stripSpecial(s) == join([i \in 1..Len(s) |-> IF CharAt(s, i) \in VendorNameChars THEN CharAt(s, i) ELSE ""], "")

formatVendorName(name) == titleCase(stripSpecial(trim(name)))

knownVendors == <<
  "bistro box", "bistro box departures",
  "metro cash", "walmart", "best price",
  "reliance fresh", "reliance mart", "reliance digital", "reliance trends",
  "big bazaar", "food bazaar", "fashion at big bazaar",
  "more", "more megastore", "more supermarket",
  "spencer's", "spencer's retail", "spencer's hyper",
  "dmart", "avenue supermarts", "d-mart",
  "easyday", "easyday club",
  "star bazaar", "trent hypermarket",
  "hypercity", "shopper's stop",
  "nature's basket", "godrej nature's basket",
  "twenty four seven", "24seven", "24x7",
  "mcdonald's", "mcdonalds", "mcd",
  "domino's", "dominos pizza", "dominos",
  "pizza hut", "pizzahut",
  "kfc", "kentucky fried chicken",
  "subway", "subway sandwich",
  "burger king", "bk",
  "taco bell",
  "baskin robbins", "dunkin donuts",
  "caf<> coffee day", "ccd", "coffee day",
  "starbucks", "starbucks coffee",
  "barista", "barista coffee",
  "costa coffee", "costa",
  "tim hortons", "blue tokai",
  "haldiram's", "haldirams",
  "bikanervala", "bikaner vala",
  "sagar ratna", "saravana bhavan",
  "udupi", "udupi restaurant",
  "punjabi by nature", "pind balluchi",
  "oh! calcutta", "mainland china",
  "barbeque nation", "bbq nation",
  "absolute barbecues", "ab's",
  "social", "hard rock cafe",
  "tgi friday's", "chili's",
  "hotel", "restaurant", "cafe", "bakery", "sweet shop",
  "medical", "pharmacy", "clinic", "hospital",
  "apollo", "fortis", "max healthcare", "manipal",
  "petrol pump", "gas station", "hp", "bharat petroleum",
  "indian oil", "reliance petroleum", "shell",
  "kirana", "general store", "supermarket", "mart",
  "provision store", "departmental store" >>

\* new RegExp(word.replace(/[.*+?^${}()|[\]\\]/g, '\\$&'), 'gi').test(text):
\* the escaped pattern matches the word literally; the object is new, so the
\* search starts at 0.  S is the text in lower case.
literalTest(word, S) == matches(Lit(toLowerCase(word)), S)

\* a variant of the lexicon round without the partial-word test
vendorHitsExact(vendor, S) == literalTest(vendor, S)

\* one round of the lexicon loop: the exact entry, or any word of a
\* multi-word entry that is longer than 3 characters
vendorHits(vendor, S) ==
  \/ literalTest(vendor, S)
  \/ LET any(words) == Len(words) > 1 /\ \E k \in 1..Len(words) : Len(words[k]) > 3 /\ literalTest(words[k], S)
     IN any(splitChar(vendor, " "))

\* first index of a set of line numbers, or 0
firstOf(ok) == IF ok = {} THEN 0 ELSE Min(ok)

\* for (let i = 0; i < Math.min(5, lines.length); i++) if (isLikelyBusinessName(line))
firstBusinessName(lines) ==
  firstOf({i \in 1..Min({5, Len(lines)}) : isLikelyBusinessName(lines[i])})

\* for (let i = 0; i < Math.min(4, lines.length); i++) if (isLikelyVendorName(line))
firstVendorName(lines) ==
  firstOf({i \in 1..Min({4, Len(lines)}) : isLikelyVendorName(lines[i])})

\* the lines of the text, each trimmed
linesOf(txt) == LET each(ls) == [k \in 1..Len(ls) |-> trim(ls[k])] IN each(splitChar(txt, "\n"))

\* which step of extractVendor answers: 1, 2, 3, or 0 for none
vendorStep(txt) ==
  LET step(lines, S) ==
        IF firstBusinessName(lines) # 0 THEN 1
        ELSE IF \E k \in DOMAIN knownVendors : vendorHits(knownVendors[k], S) THEN 2
        ELSE IF firstVendorName(lines) # 0 THEN 3
        ELSE 0
  IN step(linesOf(txt), toLowerCase(txt))

\* a variant that consults the lexicon before the first lines
extractVendorLexiconFirst(txt) ==
  LET answer(lines, S) ==
        IF \E k \in DOMAIN knownVendors : vendorHits(knownVendors[k], S)
        THEN LET first(vs) == titleCase(vs[Min({k \in DOMAIN vs : vendorHits(vs[k], S)})])
             IN first(knownVendors)
        ELSE IF firstBusinessName(lines) # 0 THEN formatVendorName(lines[firstBusinessName(lines)])
        ELSE IF firstVendorName(lines) # 0 THEN formatVendorName(lines[firstVendorName(lines)])
        ELSE Null
  IN answer(linesOf(txt), toLowerCase(txt))


extractVendor(txt) ==
  LET answer(lines, S, step) ==
        CASE step = 1 -> formatVendorName(lines[firstBusinessName(lines)])
          [] step = 2 -> LET first(vs) == titleCase(vs[Min({k \in DOMAIN vs : vendorHits(vs[k], S)})])
                         IN first(knownVendors)
          [] step = 3 -> formatVendorName(lines[firstVendorName(lines)])
          [] OTHER -> Null
  IN answer(linesOf(txt), toLowerCase(txt), vendorStep(txt))

\* some step of extractVendor answers
vendorStepMatches(txt) == vendorStep(txt) # 0

\* extractVendor, evaluated once for each text of the model
vendorCache == [c \in CleanInputs |-> extractVendor(c)]

\* what step 1 finds on its own: the first of the first 5 lines that is a
\* likely business name, formatted, or Null
businessNameStep(txt) ==
  LET of(lines, i) == IF i = 0 THEN Null ELSE formatVendorName(lines[i])
      on(lines) == of(lines, firstBusinessName(lines))
  IN on(linesOf(txt))

\* the lexicon entries (by index) the text contains, and those that hit
exactEntries(txt) ==
  LET on(S) == {k \in DOMAIN knownVendors : literalTest(knownVendors[k], S)} IN on(toLowerCase(txt))
hitEntries(txt) ==
  LET on(S) == {k \in DOMAIN knownVendors : vendorHits(knownVendors[k], S)} IN on(toLowerCase(txt))

\* what step 2 finds on its own: the first lexicon entry that hits,
\* title-cased, or Null
lexiconStep(txt) ==
  LET of(hits) == IF hits = {} THEN Null ELSE titleCase(knownVendors[Min(hits)])
  IN of(hitEntries(txt))

\* what step 3 finds on its own: the first of the first 4 lines that is a
\* likely vendor name, formatted, or Null
vendorNameStep(txt) ==
  LET of(lines, i) == IF i = 0 THEN Null ELSE formatVendorName(lines[i])
      on(lines) == of(lines, firstVendorName(lines))
  IN on(linesOf(txt))

\* the steps of extractVendor on each text of the model, evaluated once
vendorStepsCache ==
  [c \in CleanInputs |->
     [step |-> vendorStep(c), business |-> businessNameStep(c), lexicon |-> lexiconStep(c),
      line |-> vendorNameStep(c), exact |-> exactEntries(c), hits |-> hitEntries(c),
      lines |-> linesOf(c)]]

(***************************************************************************)
(* Date extractor                                                          *)
(***************************************************************************)
RECURSIVE flatten(_)
flatten(xss) == IF xss = <<>> THEN <<>> ELSE Head(xss) \o flatten(Tail(xss))

\* (jan|feb|mar|apr|may|jun|jul|aug|sep|oct|nov|dec)
monthAbbr ==
  Alt(<<Lit("jan"), Lit("feb"), Lit("mar"), Lit("apr"), Lit("may"), Lit("jun"),
        Lit("jul"), Lit("aug"), Lit("sep"), Lit("oct"), Lit("nov"), Lit("dec")>>)
\* (january|february|...|december)
monthFull ==
  Alt(<<Lit("january"), Lit("february"), Lit("march"), Lit("april"), Lit("may"), Lit("june"),
        Lit("july"), Lit("august"), Lit("september"), Lit("october"), Lit("november"), Lit("december")>>)

DateSep == {"/", "-", "."}
ColonSp == Space \cup {":"}
\* \d{1,2}[\/\-\.]\d{1,2}[\/\-\.]\d{4}
numericDate == Cat(<<Cls(D, 1, 2), One(DateSep), Cls(D, 1, 2), One(DateSep), Cls(D, 4, 4)>>)
\* (?:\s*[AaPp][Mm])?
amPm == Opt(Cat(<<Cls(Sp, 0, Inf), One({"a", "p"}), One({"m"})>>))
\* (?:date[:\s]*)?
dateLabel == Opt(Cat(<<Lit("date"), Cls(ColonSp, 0, Inf)>>))

\* datePatterns, all with the flags gi; only capture group 1 is read
datePatterns == <<
  \* /\d{1,2}:\d{2}(?:\s*[AaPp][Mm])?\s+(\d{1,2}\s+(jan|...|dec)\s+\d{2,4})/gi
  Cat(<<Cls(D, 1, 2), Lit(":"), Cls(D, 2, 2), amPm, Cls(Sp, 1, Inf),
        Grp(Cat(<<Cls(D, 1, 2), Cls(Sp, 1, Inf), monthAbbr, Cls(Sp, 1, Inf), Cls(D, 2, 4)>>))>>),
  \* /(\d{1,2}\s+(january|...|december)\s+\d{2,4})/gi
  Grp(Cat(<<Cls(D, 1, 2), Cls(Sp, 1, Inf), monthFull, Cls(Sp, 1, Inf), Cls(D, 2, 4)>>)),
  \* /(\d{1,2}\s+(jan|...|dec)\s+\d{2,4})/gi
  Grp(Cat(<<Cls(D, 1, 2), Cls(Sp, 1, Inf), monthAbbr, Cls(Sp, 1, Inf), Cls(D, 2, 4)>>)),
  \* /(?:date[:\s]*|bill\s*date[:\s]*|transaction[:\s]*date[:\s]*)?(\d{1,2}[\/\-\.]\d{1,2}[\/\-\.]\d{4})/gi
  Cat(<<Opt(Alt(<<Cat(<<Lit("date"), Cls(ColonSp, 0, Inf)>>),
                  Cat(<<Lit("bill"), Cls(Sp, 0, Inf), Lit("date"), Cls(ColonSp, 0, Inf)>>),
                  Cat(<<Lit("transaction"), Cls(ColonSp, 0, Inf), Lit("date"), Cls(ColonSp, 0, Inf)>>)>>)),
        Grp(numericDate)>>),
  \* /(?:date[:\s]*)?(\d{1,2}[\/\-\.]\d{1,2}[\/\-\.]\d{4})/gi
  Cat(<<dateLabel, Grp(numericDate)>>),
  \* /(?:date[:\s]*)?(\d{4}[\/\-\.]\d{1,2}[\/\-\.]\d{1,2})/gi
  Cat(<<dateLabel, Grp(Cat(<<Cls(D, 4, 4), One(DateSep), Cls(D, 1, 2), One(DateSep), Cls(D, 1, 2)>>))>>),
  \* /(?:date[:\s]*)?((january|...|december)\s+\d{1,2},?\s+\d{4})/gi
  Cat(<<dateLabel, Grp(Cat(<<monthFull, Cls(Sp, 1, Inf), Cls(D, 1, 2), Opt(Lit(",")), Cls(Sp, 1, Inf), Cls(D, 4, 4)>>))>>),
  \* /(?:date[:\s]*)?(\d{1,2}[\-\/]\s*(jan|...|dec)[\-\/]\s*\d{4})/gi
  Cat(<<dateLabel, Grp(Cat(<<Cls(D, 1, 2), One({"-", "/"}), Cls(Sp, 0, Inf), monthAbbr,
                             One({"-", "/"}), Cls(Sp, 0, Inf), Cls(D, 4, 4)>>))>>),
  \* /(\d{1,2}[\/\-\.]\d{1,2}[\/\-\.]\d{4})\s+\d{1,2}:\d{2}(?::\d{2})?(?:\s*[AaPp][Mm])?/gi
  Cat(<<Grp(numericDate), Cls(Sp, 1, Inf), Cls(D, 1, 2), Lit(":"), Cls(D, 2, 2),
        Opt(Cat(<<Lit(":"), Cls(D, 2, 2)>>)), amPm>>) >>

\* /(?:date|bill\s*date|transaction\s*date)[:\s]*/gi
dateLabels ==
  Cat(<<Alt(<<Lit("date"), Cat(<<Lit("bill"), Cls(Sp, 0, Inf), Lit("date")>>),
              Cat(<<Lit("transaction"), Cls(Sp, 0, Inf), Lit("date")>>)>>), Cls(ColonSp, 0, Inf)>>)

\* match[1] || match[0], labels removed, trimmed
dateStrOf(txt, m) ==
  LET strip(raw) == trim(replaceAll(raw, toLowerCase(raw), dateLabels, ""))
  IN strip(IF m.cap # NoCap /\ m.cap[2] > m.cap[1]
           THEN SubSeq(txt, m.cap[1], m.cap[2] - 1) ELSE SubSeq(txt, m.index, m.end - 1))

dateScore(ds) ==
  1 + (IF includes(ds, "/") \/ includes(ds, "-") \/ includes(ds, ".") THEN 2 ELSE 0)
    + (IF matches(Cls(D, 4, 4), ds) THEN 2 ELSE 0)
    + (IF matches(numericDate, ds) THEN 3 ELSE 0)

\* every match of every pattern, in pattern order then text order
dateCandidates(txt) ==
  LET each(ms) == [j \in 1..Len(ms) |-> dateStrOf(txt, ms[j])]
      all(ps, S) == flatten([k \in DOMAIN ps |-> each(execAll(ps[k], S))])
  IN all(datePatterns, toLowerCase(txt))

\* a variant of the loop that replaces bestMatch on an equal score too
bestDateMatchLast(txt) ==
  LET last(cs, sc) ==
        IF cs = <<>> THEN Null
        ELSE cs[Max({j \in 1..Len(cs) : \A o \in 1..Len(cs) : sc[o] <= sc[j]})]
      scored(cs) == last(cs, [j \in 1..Len(cs) |-> dateScore(cs[j])])
  IN scored(dateCandidates(txt))

\* the loop's bestMatch: the first candidate of the highest score, or Null
bestDateMatch(txt) ==
  LET first(cs, sc) ==
        IF cs = <<>> THEN Null
        ELSE cs[Min({j \in 1..Len(cs) : \A o \in 1..Len(cs) : sc[o] <= sc[j]})]
      scored(cs) == first(cs, [j \in 1..Len(cs) |-> dateScore(cs[j])])
  IN scored(dateCandidates(txt))

\* monthMap, in the order Object.entries yields it
monthMap == <<
  <<"jan", "01">>, <<"january", "01">>, <<"feb", "02">>, <<"february", "02">>,
  <<"mar", "03">>, <<"march", "03">>, <<"apr", "04">>, <<"april", "04">>,
  <<"may", "05">>, <<"jun", "06">>, <<"june", "06">>, <<"jul", "07">>, <<"july", "07">>,
  <<"aug", "08">>, <<"august", "08">>, <<"sep", "09">>, <<"september", "09">>,
  <<"oct", "10">>, <<"october", "10">>, <<"nov", "11">>, <<"november", "11">>,
  <<"dec", "12">>, <<"december", "12">> >>

\* for (const [month, num] of Object.entries(monthMap))
\*   normalized = normalized.replace(new RegExp(month, 'gi'), num)
RECURSIVE replaceMonths(_, _)
replaceMonths(s, k) ==
  IF k > Len(monthMap) THEN s
  ELSE LET go(next) == IF Len(next) >= 0 THEN replaceMonths(next, k + 1) ELSE next
           entry(e) == go(replaceAll(s, toLowerCase(s), Lit(e[1]), e[2]))
       IN entry(monthMap[k])

\* parseInt(s): optional sign, then the leading decimal digits; a 0x prefix
\* switches to hexadecimal; NaN without a digit.  Used on 2-character years,
\* where a hexadecimal prefix leaves no digit.
parseInt(s) ==
  LET digits(u, neg) ==
        LET value(n) ==
              IF (Len(u) >= 2 /\ toLowerCase(SubSeq(u, 1, 2)) = "0x") \/ n = 0
              THEN [nan |-> TRUE, v |-> 0]
              ELSE [nan |-> FALSE, v |-> IF neg THEN 0 - digitsVal(SubSeq(u, 1, n))
                                                 ELSE digitsVal(SubSeq(u, 1, n))]
        IN value(runLen(u, 1, Digit, Inf))
      signed(t) == digits(IF Len(t) > 0 /\ CharAt(t, 1) \in {"+", "-"} THEN SubSeq(t, 2, Len(t)) ELSE t,
                          Len(t) > 0 /\ CharAt(t, 1) = "-")
  IN signed(trim(s))

\* a variant that always expands into the years 2000..2099
expandYearFixedCentury(year, now) ==
  LET add(century, yy) == IF yy.nan THEN "NaN" ELSE numToString(century + yy.v)
  IN add(2000, parseInt(year))

\* (century + parseInt(year)).toString()
expandYear(year, now) ==
  LET add(century, yy) == IF yy.nan THEN "NaN" ELSE numToString(century + yy.v)
  IN add((now.y \div 100) * 100, parseInt(year))

\* dateStr.replace(/[\-\.]/g, '/') and the month names replaced
normalizeDate(ds) == replaceMonths(replaceAll(ds, ds, One({"-", "."}), "/"), 1)

\* normalized.split(/[\/\s]+/)
dateParts(ds) == splitRuns(normalizeDate(ds), Space \cup {"/"})

\* a variant that gives up with the normalized string instead of the original
formatDateNormalized(ds, now) ==
  LET put(parts) ==
        IF Len(parts) >= 3
        THEN padStart2(parts[1]) \o "/" \o padStart2(parts[2]) \o "/"
               \o (IF Len(parts[3]) = 2 THEN expandYear(parts[3], now) ELSE parts[3])
        ELSE normalizeDate(ds)
  IN put(dateParts(ds))

formatDate(ds, now) ==
  LET put(parts) ==
        IF Len(parts) >= 3
        THEN padStart2(parts[1]) \o "/" \o padStart2(parts[2]) \o "/"
               \o (IF Len(parts[3]) = 2 THEN expandYear(parts[3], now) ELSE parts[3])
        ELSE ds
  IN put(dateParts(ds))

\* /(?:today|now|current)\s*(?:date)?/gi
todayIndicators ==
  Cat(<<Alt(<<Lit("today"), Lit("now"), Lit("current")>>), Cls(Sp, 0, Inf), Opt(Lit("date"))>>)

\* a variant in which the pattern is one object made once and shared by all
\* calls, so that the lastIndex an earlier call left is where the next starts
hoistedRegExp(left) == left

\* lastIndex of the RegExp object a regular-expression literal evaluates to:
\* a new object each time, whatever lastIndex the object made by an earlier
\* evaluation of the same literal was left with
regExpLiteral(left) == 0

\* a variant that writes nothing for today
todayStringEmpty(now) == ""

todayString(now) ==
  padStart2(numToString(now.d)) \o "/" \o padStart2(numToString(now.m)) \o "/" \o numToString(now.y)

\* the scoring loop, todayIndicators against the text and formatDate,
\* evaluated once for each text of the model
bestDateMatchCache == [c \in CleanInputs |-> bestDateMatch(c)]
todayScanCache == [c \in CleanInputs |-> scan(todayIndicators, toLowerCase(c))]
formatDateCache ==
  [c \in CleanInputs, now \in ClockValues |->
     LET of(bestMatch) == IF bestMatch = Null THEN Null ELSE formatDate(bestMatch, now)
     IN of(bestDateMatchCache[c])]

\* the candidates of the scoring loop with their scores, in the order the
\* loop meets them, for each text of the model
dateCandidatesCache ==
  [c \in CleanInputs |->
     LET scored(cs) == [j \in 1..Len(cs) |-> [str |-> cs[j], score |-> dateScore(cs[j])]]
     IN scored(dateCandidates(c))]

\* some date pattern, or todayIndicators, matches the text
datePatternMatches(txt) ==
  dateCandidates(txt) # <<>> \/ matches(todayIndicators, toLowerCase(txt))

\* a variant that looks for a today indicator before the date patterns
extractDateTodayFirst(txt, now, li) ==
  LET pattern(t) ==
        IF t.ok THEN [val |-> todayString(now), li |-> t.lastIndex]
        ELSE [val |-> formatDateCache[txt, now], li |-> t.lastIndex]
  IN pattern(execAt(todayScanCache[txt], regExpLiteral(li)))

\* extractDate; li is the lastIndex an earlier call left on todayIndicators.
\* Result: the value returned and the lastIndex left behind.
extractDate(txt, now, li) ==
  LET fallback(t) == [val |-> IF t.ok THEN todayString(now) ELSE Null, li |-> t.lastIndex]
      from(bestMatch) ==
        IF bestMatch = Null
        THEN fallback(execAt(todayScanCache[txt], regExpLiteral(li)))
        ELSE [val |-> formatDateCache[txt, now], li |-> li]
  IN from(bestDateMatchCache[txt])

(***************************************************************************)
(* Total extractor                                                         *)
(***************************************************************************)
CommaSp == Space \cup {","}
\* characters of the class written [$<rupee literal>] in the source
CurrencyClass == {"$", "%", "=", ";"}

\* \d+(?:[,\s]\d+)*(?:\.\d{2})?  with at least lo leading digits
amountPattern(lo) ==
  Cat(<<Cls(D, lo, Inf), Star(Cat(<<One(CommaSp), Cls(D, 1, Inf)>>)), Opt(Cat(<<Lit("."), Cls(D, 2, 2)>>))>>)

\* totalPatterns: <<pattern, priority>>, all with the flags gi
totalPatterns == <<
  \* /(?:balance\s*due|(?:grand\s*)?total|net\s*(?:amount|total)|final\s*(?:amount|total)|amount\s*payable|tendered)[:\s]*\$?\s*(A)/gi
  <<Cat(<<Alt(<<Cat(<<Lit("balance"), Cls(Sp, 0, Inf), Lit("due")>>),
                Cat(<<Opt(Cat(<<Lit("grand"), Cls(Sp, 0, Inf)>>)), Lit("total")>>),
                Cat(<<Lit("net"), Cls(Sp, 0, Inf), Alt(<<Lit("amount"), Lit("total")>>)>>),
                Cat(<<Lit("final"), Cls(Sp, 0, Inf), Alt(<<Lit("amount"), Lit("total")>>)>>),
                Cat(<<Lit("amount"), Cls(Sp, 0, Inf), Lit("payable")>>),
                Lit("tendered")>>),
          Cls(ColonSp, 0, Inf), Opt(Lit("$")), Cls(Sp, 0, Inf), Grp(amountPattern(1))>>), 10>>,
  \* /\$\s*(A)/gi
  <<Cat(<<Lit("$"), Cls(Sp, 0, Inf), Grp(amountPattern(1))>>), 9>>,
  \* /(?:total)[:\s]*[$<rupee literal>]\s*(A)/gi
  <<Cat(<<Lit("total"), Cls(ColonSp, 0, Inf), One(CurrencyClass), Cls(Sp, 0, Inf), Grp(amountPattern(1))>>), 8>>,
  \* /(?:amount\s*(?:due|payable)|balance\s*due)[:\s]*<rupee literal>?\s*(A)/gi
  \* (the ? binds to the last character of the literal only)
  <<Cat(<<Alt(<<Cat(<<Lit("amount"), Cls(Sp, 0, Inf), Alt(<<Lit("due"), Lit("payable")>>)>>),
                Cat(<<Lit("balance"), Cls(Sp, 0, Inf), Lit("due")>>)>>),
          Cls(ColonSp, 0, Inf), Lit("%="), Opt(Lit(";")), Cls(Sp, 0, Inf), Grp(amountPattern(1))>>), 7>>,
  \* /[$<rupee literal>]\s*(A)\s*(?:total|amount|due)?/gi
  <<Cat(<<One(CurrencyClass), Cls(Sp, 0, Inf), Grp(amountPattern(1)), Cls(Sp, 0, Inf),
          Opt(Alt(<<Lit("total"), Lit("amount"), Lit("due")>>))>>), 6>>,
  \* /(?:rs\.?|rupees|inr)[:\s]*(A)\s*(?:total|amount)?/gi
  <<Cat(<<Alt(<<Cat(<<Lit("rs"), Opt(Lit("."))>>), Lit("rupees"), Lit("inr")>>),
          Cls(ColonSp, 0, Inf), Grp(amountPattern(1)), Cls(Sp, 0, Inf),
          Opt(Alt(<<Lit("total"), Lit("amount")>>))>>), 5>>,
  \* /(A)\s*(?:[$<rupee literal>]|rs\.?|rupees|inr|aud|usd)/gi
  <<Cat(<<Grp(amountPattern(1)), Cls(Sp, 0, Inf),
          Alt(<<One(CurrencyClass), Cat(<<Lit("rs"), Opt(Lit("."))>>), Lit("rupees"), Lit("inr"),
                Lit("aud"), Lit("usd")>>)>>), 4>>,
  \* /(\d{2,}(?:[,\s]\d+)*(?:\.\d{2})?)/gi
  <<Grp(amountPattern(2)), 1>> >>

\* rawAmount.replace(/[,\s]/g, '')
cleanAmount(raw) == join([i \in 1..Len(raw) |-> IF CharAt(raw, i) \in CommaSp THEN "" ELSE CharAt(raw, i)], "")

\* parseFloat of digits with at most two decimals, in hundredths
parseFloat100(s) ==
  LET value(n) ==
        LET add(f) == 100 * digitsVal(SubSeq(s, 1, n))
                        + (IF Len(f) = 2 THEN digitsVal(f) ELSE IF Len(f) = 1 THEN 10 * digitsVal(f) ELSE 0)
        IN add(IF n + 1 <= Len(s) /\ CharAt(s, n + 1) = "."
               THEN SubSeq(s, n + 2, n + 1 + runLen(s, n + 2, Digit, 2)) ELSE "")
  IN value(runLen(s, 1, Digit, Inf))

\* one match of one pattern as a candidate {amount, priority, raw}; amount in hundredths
totalCandidate(txt, m, priority) ==
  LET scored(rawAmount, amount, matchIndex) ==
        [amount |-> amount, raw |-> rawAmount,
         priority |-> priority
            + (IF includes(rawAmount, ".") THEN 2 ELSE 0)
            + (IF amount >= 10 * 100 /\ amount <= 100000 * 100 THEN 3 ELSE 0)
            + (IF amount % 500 = 0 THEN 1 ELSE 0)
            + (IF 10 * matchIndex > 7 * Len(txt) THEN 2 ELSE 0)]
      of(rawAmount) == scored(rawAmount, parseFloat100(cleanAmount(rawAmount)),
                              indexOf(txt, SubSeq(txt, m.index, m.end - 1)))
  IN of(SubSeq(txt, m.cap[1], m.cap[2] - 1))

\* candidates, in pattern order then text order; non-positive amounts dropped
totalCandidates(txt) ==
  LET each(ms, priority) ==
        SelectSeq([j \in 1..Len(ms) |-> totalCandidate(txt, ms[j], priority)], LAMBDA c : c.amount > 0)
      all(ps, S) == flatten([k \in DOMAIN ps |-> each(execAll(ps[k][1], S), ps[k][2])])
  IN all(totalPatterns, toLowerCase(txt))

\* a variant that keeps the order of the candidates among equal scores
bestCandidateFirst(cs) ==
  cs[Min({j \in 1..Len(cs) : \A o \in 1..Len(cs) : cs[o].priority <= cs[j].priority})]

\* candidates.sort(...)[0]: highest priority, then highest amount
bestCandidate(cs) ==
  cs[Min({j \in 1..Len(cs) : \A o \in 1..Len(cs) :
            \/ cs[o].priority < cs[j].priority
            \/ (cs[o].priority = cs[j].priority /\ cs[o].amount <= cs[j].amount)})]

\* /(?:aud|usd|cad|balance\s*due|tendered)/i
dollarWords ==
  Alt(<<Lit("aud"), Lit("usd"), Lit("cad"), Cat(<<Lit("balance"), Cls(Sp, 0, Inf), Lit("due")>>), Lit("tendered")>>)

\* the literal the source assigns to currencySymbol by default
RupeeLiteral == "%=;"

currencySymbol(txt) ==
  IF includes(txt, "$") \/ matches(dollarWords, toLowerCase(txt)) THEN "$" ELSE RupeeLiteral

\* a variant that never writes decimals
formatAmountWhole(amount) == numToString(amount \div 100)

\* a variant that always writes two decimals: amount.toFixed(2)
formatAmountTwoDecimals(amount) ==
  numToString(amount \div 100) \o "." \o padStart2(numToString(amount % 100))

\* amount % 1 === 0 ? amount.toFixed(0) : amount.toFixed(2)
formatAmount(amount) ==
  IF amount % 100 = 0 THEN numToString(amount \div 100)
  ELSE numToString(amount \div 100) \o "." \o padStart2(numToString(amount % 100))

\* outcome of a call that ends in an uncaught TypeError
TypeError == "<TypeError>"

\* rawAmount.replace(...) on a match whose group 1 did not take part
totalThrows(txt) ==
  LET any(ps, S) == \E k \in DOMAIN ps : \E m \in {execAll(ps[k][1], S)} : \E j \in DOMAIN m : m[j].cap = NoCap
  IN any(totalPatterns, toLowerCase(txt))

extractTotal(txt) ==
  LET format(cs) ==
        IF Len(cs) = 0 THEN Null
        ELSE currencySymbol(txt) \o formatAmount(bestCandidate(cs).amount)
  IN IF totalThrows(txt) THEN TypeError ELSE format(totalCandidates(txt))

\* some total pattern matches the text
totalPatternMatches(txt) ==
  LET any(ps, S) == \E k \in DOMAIN ps : matches(ps[k][1], S)
  IN any(totalPatterns, toLowerCase(txt))

\* some total pattern matches an amount that parses to more than zero
positiveAmountMatches(txt) == totalCandidates(txt) # <<>>

\* the candidates of each text of the model, each with the priority of its
\* pattern and the offset (from 0) at which its match stands
totalCandidatesCache ==
  [c \in CleanInputs |->
     LET each(ms, priority) ==
           SelectSeq([j \in 1..Len(ms) |->
                        [c |-> totalCandidate(c, ms[j], priority), tier |-> priority,
                         index |-> ms[j].index - 1]],
                     LAMBDA x : x.c.amount > 0)
         all(ps, S) == flatten([k \in DOMAIN ps |-> each(execAll(ps[k][1], S), ps[k][2])])
     IN IF totalThrows(c) THEN <<>> ELSE all(totalPatterns, toLowerCase(c))]

\* extractTotal, evaluated once for each text of the model
totalCache == [c \in CleanInputs |-> extractTotal(c)]

(***************************************************************************)
(* Assembler, validator, share text                                        *)
(***************************************************************************)
\* a variant of the emptiness test that knows null only: x == null
nullOnly(x) == x = Null

\* !x for a string or null
falsy(x) == x = Null \/ x = ""

AllExtractors == {"extractVendor", "extractDate", "extractTotal"}

\* a variant that returns the text as given in rawText
extractReceiptDataUntrimmed(txt, now, li) ==
  IF falsy(txt)
  THEN [ret |-> [vendor |-> Null, date |-> Null, total |-> Null, rawText |-> txt],
        threw |-> FALSE, invoked |-> {}, li |-> li]
  ELSE LET assemble(cleanText, v, d, t) ==
             [ret |-> [vendor |-> v, date |-> d.val, total |-> t, rawText |-> txt],
              threw |-> t = TypeError, invoked |-> AllExtractors, li |-> d.li]
           on(cleanText) == assemble(cleanText, vendorCache[cleanText],
                                     extractDate(cleanText, now, li), totalCache[cleanText])
       IN on(trim(txt))

\* a variant that looks for a date and a total only on a receipt whose vendor
\* it found
extractReceiptDataChained(txt, now, li) ==
  IF falsy(txt)
  THEN [ret |-> [vendor |-> Null, date |-> Null, total |-> Null, rawText |-> txt],
        threw |-> FALSE, invoked |-> {}, li |-> li]
  ELSE LET assemble(cleanText, v, d, t) ==
             IF v = Null
             THEN [ret |-> [vendor |-> Null, date |-> Null, total |-> Null, rawText |-> cleanText],
                   threw |-> FALSE, invoked |-> {"extractVendor"}, li |-> li]
             ELSE [ret |-> [vendor |-> v, date |-> d.val, total |-> t, rawText |-> cleanText],
                   threw |-> t = TypeError, invoked |-> AllExtractors, li |-> d.li]
           on(cleanText) == assemble(cleanText, vendorCache[cleanText],
                                     extractDate(cleanText, now, li), totalCache[cleanText])
       IN on(trim(txt))

\* extractReceiptData(text) at clock reading now, li being the lastIndex an
\* earlier call left behind.  ret is the returned record, threw tells that an
\* extractor threw instead, invoked lists the extractors that were called.
extractReceiptData(txt, now, li) ==
  IF falsy(txt)
  THEN [ret |-> [vendor |-> Null, date |-> Null, total |-> Null, rawText |-> txt],
        threw |-> FALSE, invoked |-> {}, li |-> li]
  ELSE LET assemble(cleanText, v, d, t) ==
             [ret |-> [vendor |-> v, date |-> d.val, total |-> t, rawText |-> cleanText],
              threw |-> t = TypeError, invoked |-> AllExtractors, li |-> d.li]
           on(cleanText) == assemble(cleanText, vendorCache[cleanText],
                                     extractDate(cleanText, now, li), totalCache[cleanText])
       IN on(trim(txt))

VendorError == "Vendor name not found"
DateError == "Date not found"
TotalError == "Total amount not found"

\* a variant that reports the date before the vendor
validateDateFirst(d) ==
  LET errors == (IF falsy(d.date) THEN <<DateError>> ELSE <<>>)
             \o (IF falsy(d.vendor) THEN <<VendorError>> ELSE <<>>)
             \o (IF falsy(d.total) THEN <<TotalError>> ELSE <<>>)
  IN [isValid |-> Len(errors) = 0, errors |-> errors]

\* a variant that takes a field for missing only when it is null
validateNullOnly(d) ==
  LET errors == (IF d.vendor = Null THEN <<VendorError>> ELSE <<>>)
             \o (IF d.date = Null THEN <<DateError>> ELSE <<>>)
             \o (IF d.total = Null THEN <<TotalError>> ELSE <<>>)
  IN [isValid |-> Len(errors) = 0, errors |-> errors]

validateReceiptData(d) ==
  LET errors == (IF falsy(d.vendor) THEN <<VendorError>> ELSE <<>>)
             \o (IF falsy(d.date) THEN <<DateError>> ELSE <<>>)
             \o (IF falsy(d.total) THEN <<TotalError>> ELSE <<>>)
  IN [isValid |-> Len(errors) = 0, errors |-> errors]

\* the four pictographs of the template are written by name
ShareHeader == "[receipt] Receipt Summary"
ShareFooter == "Generated by One-Click Receipt"

\* a variant that falls back only on null: x ?? fallback
orElseNullish(x, fallback) == IF x = Null THEN fallback ELSE x

\* x || fallback
orElse(x, fallback) == IF falsy(x) THEN fallback ELSE x

\* the template literal, as its lines
formatReceiptForSharing(d) ==
  join(<<ShareHeader,
         "",
         "[pin] Vendor: " \o orElse(d.vendor, "Unknown Store"),
         "[calendar] Date: " \o orElse(d.date, "Unknown Date"),
         "[money] Total: " \o orElse(d.total, "Unknown Amount"),
         "",
         ShareFooter>>, "\n")

\* what the patterns find in each text of the model, evaluated once
matchCache ==
  [c \in CleanInputs |-> [vendor |-> vendorStepMatches(c), date |-> datePatternMatches(c),
                          total |-> totalPatternMatches(c), positive |-> positiveAmountMatches(c)]]

(***************************************************************************)
(* Sessions.  A session is one of:                                         *)
(*  - a parser session: a text, calls of extractReceiptData on it, the     *)
(*    extractors applied alone to it, the clock moving on;                 *)
(*  - a preview session: a ReceiptData record, validated and formatted     *)
(*    for sharing;                                                         *)
(*  - a formatDate session: a date string, formatted at some clock reading *)
(***************************************************************************)
Unset == "<unset>"
NoRecord == [vendor |-> Unset, date |-> Unset, total |-> Unset, rawText |-> Unset]
NoValidation == [isValid |-> FALSE, errors |-> <<Unset>>]
NoCall == [outcome |-> "none", rec |-> NoRecord, at |-> Clock[1]]
NoneAlone == [vendor |-> Unset, date |-> Unset, total |-> Unset, dateAt |-> Clock[1]]

\* field values of the records of a preview session
FieldValues ==
  [vendor |-> {Null, "", "Joe's Diner"}, date |-> {Null, "", "07/08/2025"},
   total |-> {Null, "", "$12.50"}, rawText |-> {"", "Joe's Diner\nTotal $12.50"}]
DataRecords ==
  [vendor : FieldValues.vendor, date : FieldValues.date, total : FieldValues.total,
   rawText : FieldValues.rawText]

\* arguments of formatDate
DateStrings ==
  {"07/08/2025", "7-8-25", "7.8.2025", "3 Jul 24", "07 Jul 24", "7 March 2025", "2025-08-07",
   "July 7, 2025", "07 08 2025", "1/2/3/4", "7/8/0x", "07/08", "7 Jul", "March", "12.26",
   "hello", "today", "", " ", "/", "7 July 2025", "7 Jul 2025", "7 JUNE 2025", "7-May-2025",
   "07 Jul 99", "7/8/5"}

InParser == text # Unset
InPreview == data # NoRecord
InFormat == dateStr # Unset

\* router.push was not called
NoPush == [extractedText |-> Unset, vendor |-> Unset, date |-> Unset, total |-> Unset]

\* the camera screen before any flow, and outside a camera session
CameraIdle ==
  [pc |-> "idle", isProcessing |-> FALSE, ocrProgress |-> 0, ocrStatus |-> "", alert |-> Unset,
   parsedOn |-> Unset, receiptData |-> NoRecord, pushed |-> NoPush, flows |-> 0]
CameraOff == [CameraIdle EXCEPT !.pc = "off"]
UnsetResult == [text |-> Unset, confidence |-> 0]
NoOcr == [pc |-> "none", google |-> UnsetResult, retry |-> UnsetResult, space |-> Unset,
          ret |-> Unset, source |-> "none"]
InCamera == cam.pc # "off"

InitParser ==
  /\ text \in Inputs
  /\ today \in ClockValues
  /\ data = NoRecord
  /\ dateStr = Unset
  /\ cam = CameraOff

InitPreview ==
  /\ text = Unset
  /\ today = Clock[1]
  /\ data \in DataRecords
  /\ dateStr = Unset
  /\ cam = CameraOff

InitFormat ==
  /\ text = Unset
  /\ today \in ClockValues
  /\ data = NoRecord
  /\ dateStr \in DateStrings
  /\ cam = CameraOff

InitCamera ==
  /\ text = Unset
  /\ today = CameraClock
  /\ data = NoRecord
  /\ dateStr = Unset
  /\ cam = CameraIdle

Init ==
  /\ InitParser \/ InitPreview \/ InitFormat \/ InitCamera
  /\ lastIndex = 0
  /\ outcome = "none"
  /\ rec = NoRecord
  /\ recAt = Clock[1]
  /\ prev = NoCall
  /\ invoked = {}
  /\ alone = NoneAlone
  /\ calls = 0
  /\ ticks = 0
  /\ validation = NoValidation
  /\ shared = Unset
  /\ formatted = Unset
  /\ formattedAt = Clock[1]
  /\ ocr = NoOcr

\* a call extractReceiptData(text)
ExtractReceiptData ==
  /\ InParser
  /\ calls < MaxCalls
  /\ \E r \in {extractReceiptData(text, today, lastIndex)} :
        /\ outcome' = IF r.threw THEN "threw" ELSE "returned"
        /\ rec' = IF r.threw THEN NoRecord ELSE r.ret
        /\ invoked' = r.invoked
        /\ lastIndex' = r.li
  /\ recAt' = today
  /\ prev' = [outcome |-> outcome, rec |-> rec, at |-> recAt]
  /\ calls' = calls + 1
  /\ UNCHANGED <<text, today, alone, ticks, previewVars, formatVars, cameraVars>>

\* extractVendor applied alone to the trimmed text
ExtractVendorAlone ==
  /\ InParser /\ text # Null /\ alone.vendor = Unset
  /\ alone' = [alone EXCEPT !.vendor = vendorCache[trim(text)]]
  /\ UNCHANGED <<text, today, lastIndex, outcome, rec, recAt, prev, invoked, calls, ticks,
                 previewVars, formatVars, cameraVars>>

\* extractDate applied alone to the trimmed text
ExtractDateAlone ==
  /\ InParser /\ text # Null /\ alone.date = Unset
  /\ \E d \in {extractDate(trim(text), today, lastIndex)} :
        /\ alone' = [alone EXCEPT !.date = d.val, !.dateAt = today]
        /\ lastIndex' = d.li
  /\ UNCHANGED <<text, today, outcome, rec, recAt, prev, invoked, calls, ticks,
                 previewVars, formatVars, cameraVars>>

\* extractTotal applied alone to the trimmed text
ExtractTotalAlone ==
  /\ InParser /\ text # Null /\ alone.total = Unset
  /\ alone' = [alone EXCEPT !.total = totalCache[trim(text)]]
  /\ UNCHANGED <<text, today, lastIndex, outcome, rec, recAt, prev, invoked, calls, ticks,
                 previewVars, formatVars, cameraVars>>

\* the clock moves on to a later reading
Tick ==
  /\ InParser \/ InFormat
  /\ ticks < MaxTicks
  /\ \E k \in 1..(Len(Clock) - 1) : today = Clock[k] /\ today' = Clock[k + 1]
  /\ ticks' = ticks + 1
  /\ UNCHANGED <<text, lastIndex, outcome, rec, recAt, prev, invoked, alone, calls,
                 previewVars, formatVars, cameraVars>>

\* validateReceiptData(data)
ValidateReceiptData ==
  /\ InPreview /\ validation = NoValidation
  /\ validation' = validateReceiptData(data)
  /\ UNCHANGED <<parserVars, data, shared, formatVars, cameraVars>>

\* formatReceiptForSharing(data)
FormatReceiptForSharing ==
  /\ InPreview /\ shared = Unset
  /\ shared' = formatReceiptForSharing(data)
  /\ UNCHANGED <<parserVars, data, validation, formatVars, cameraVars>>

\* formatDate(dateStr)
FormatDate ==
  /\ InFormat /\ formatted = Unset
  /\ formatted' = formatDate(dateStr, today)
  /\ formattedAt' = today
  /\ UNCHANGED <<text, lastIndex, outcome, rec, recAt, prev, invoked, alone, calls, ticks,
                 today, previewVars, dateStr, cameraVars>>

\* the handler's finally: setIsProcessing(false)
handlerFinally(c) == [c EXCEPT !.pc = "idle", !.isProcessing = FALSE]

\* the handler's catch: Alert.alert('Error', ...), then its finally
handlerCatch(c) == handlerFinally([c EXCEPT !.alert = "Error"])

\* a variant of the finally of processReceiptImage that resets nothing
processFinallySkipped(c) == [c EXCEPT !.pc = "handlerFinally"]

\* the finally of processReceiptImage: setOcrProgress(0); setOcrStatus('');
\* the handler that awaits it goes on afterwards
processFinally(c) == [c EXCEPT !.pc = "handlerFinally", !.ocrProgress = 0, !.ocrStatus = ""]

\* processReceiptImage up to its first await: the status is set and
\* ocrService.extractTextFromImage(imageUri) is called
processReceiptImage(c) ==
  [c EXCEPT !.pc = "ocr", !.ocrStatus = "Initializing OCR...", !.ocrProgress = 0]

\* the handler up to its first await: setIsProcessing(true)
handlerStarts(c, awaiting) ==
  [CameraIdle EXCEPT !.pc = awaiting, !.isProcessing = TRUE, !.flows = c.flows + 1]

\* params of router.push: vendor: receiptData.vendor || '' ...
pushParams(extractedText, receiptData) ==
  [extractedText |-> extractedText, vendor |-> orElse(receiptData.vendor, ""),
   date |-> orElse(receiptData.date, ""), total |-> orElse(receiptData.total, "")]

\* return this.processOCRResult(<text>) in extractTextFromImage
resolved(o, rawText, source) ==
  [o EXCEPT !.pc = "resolved", !.ret = processOCRCache[rawText], !.source = source]

\* handleTakePicture: without a camera it returns at once
HandleTakePicture ==
  /\ InCamera /\ cam.pc = "idle" /\ cam.flows < MaxFlows
  /\ \E cameraRef \in BOOLEAN :
       /\ cam' = IF cameraRef THEN handlerStarts(cam, "takePicture")
                 ELSE [cam EXCEPT !.flows = cam.flows + 1]
       /\ ocr' = IF cameraRef THEN NoOcr ELSE ocr
  /\ UNCHANGED <<parserVars, previewVars, formatVars>>

\* handlePickFromGallery
HandlePickFromGallery ==
  /\ InCamera /\ cam.pc = "idle" /\ cam.flows < MaxFlows
  /\ cam' = handlerStarts(cam, "pickImage")
  /\ ocr' = NoOcr
  /\ UNCHANGED <<parserVars, previewVars, formatVars>>

\* takePictureAsync settles: a photo with a uri, a photo without, or an error
TakePictureSettles ==
  /\ cam.pc = "takePicture"
  /\ \E settled \in {"uri", "none", "throws"} :
       /\ cam' = CASE settled = "uri" -> processReceiptImage(cam)
                   [] settled = "none" -> handlerFinally(cam)
                   [] OTHER -> handlerCatch(cam)
       /\ ocr' = IF settled = "uri" THEN [NoOcr EXCEPT !.pc = "google"] ELSE ocr
  /\ UNCHANGED <<parserVars, previewVars, formatVars>>

\* launchImageLibraryAsync settles: an asset, a cancel, or an error
LaunchImageLibrarySettles ==
  /\ cam.pc = "pickImage"
  /\ \E settled \in {"asset", "canceled", "throws"} :
       /\ cam' = CASE settled = "asset" -> processReceiptImage(cam)
                   [] settled = "canceled" -> handlerFinally(cam)
                   [] OTHER -> handlerCatch(cam)
       /\ ocr' = IF settled = "asset" THEN [NoOcr EXCEPT !.pc = "google"] ELSE ocr
  /\ UNCHANGED <<parserVars, previewVars, formatVars>>

\* extractTextFromImage: the image is preprocessed and the first
\* googleVisionOCROptimized call settles
GoogleVisionSettles ==
  /\ ocr.pc = "google"
  /\ \E googleResult \in GoogleResults :
       ocr' = IF sufficientResult(googleResult)
              THEN IF lowConfidence(googleResult)
                   THEN [ocr EXCEPT !.pc = "retry", !.google = googleResult]
                   ELSE resolved([ocr EXCEPT !.google = googleResult], googleResult.text, "google")
              ELSE [ocr EXCEPT !.pc = "space", !.google = googleResult]
  /\ UNCHANGED <<parserVars, previewVars, formatVars, cam>>

\* extractTextFromImage: the retry with the enhanced image settles
GoogleRetrySettles ==
  /\ ocr.pc = "retry"
  /\ \E retryResult \in GoogleResults :
       ocr' = IF betterRetry(retryResult, ocr.google)
              THEN resolved([ocr EXCEPT !.retry = retryResult], retryResult.text, "retry")
              ELSE resolved([ocr EXCEPT !.retry = retryResult], ocr.google.text, "google")
  /\ UNCHANGED <<parserVars, previewVars, formatVars, cam>>

\* extractTextFromImage: ocrSpaceAPI settles; without sufficient text the
\* error is thrown and caught, and a mock receipt is returned
OcrSpaceSettles ==
  /\ ocr.pc = "space"
  /\ \E ocrSpaceResult \in SpaceResults, mockResult \in MockResults :
       ocr' = IF sufficientText(ocrSpaceResult)
              THEN resolved([ocr EXCEPT !.space = ocrSpaceResult], ocrSpaceResult, "space")
              ELSE resolved([ocr EXCEPT !.space = ocrSpaceResult], mockResult, "mock")
  /\ UNCHANGED <<parserVars, previewVars, formatVars, cam>>

\* processReceiptImage after extractTextFromImage resolved, up to the delay
TextExtracted ==
  /\ cam.pc = "ocr" /\ ocr.pc = "resolved"
  /\ IF Len(trim(ocr.ret)) = 0
     THEN /\ cam' = processFinally([cam EXCEPT !.alert = "No Text Found"])
          /\ UNCHANGED lastIndex
     ELSE \E r \in {extractReceiptData(ocr.ret, today, lastIndex)} :
            /\ cam' = IF r.threw
                      THEN processFinally([cam EXCEPT !.alert = "Processing Error", !.parsedOn = ocr.ret])
                      ELSE [cam EXCEPT !.pc = "delay", !.ocrStatus = "Complete!", !.ocrProgress = 100,
                                       !.parsedOn = ocr.ret, !.receiptData = r.ret]
            /\ lastIndex' = r.li
  /\ UNCHANGED <<text, today, outcome, rec, recAt, prev, invoked, alone, calls, ticks,
                 previewVars, formatVars, ocr>>

\* processReceiptImage after the delay: router.push, then its finally
DelayElapses ==
  /\ cam.pc = "delay"
  /\ cam' = processFinally([cam EXCEPT !.pushed = pushParams(cam.parsedOn, cam.receiptData)])
  /\ UNCHANGED <<parserVars, previewVars, formatVars, ocr>>

\* the handler after processReceiptImage settled: its finally
HandlerFinally ==
  /\ cam.pc = "handlerFinally"
  /\ cam' = handlerFinally(cam)
  /\ UNCHANGED <<parserVars, previewVars, formatVars, ocr>>

\* what happens on the camera screen without the user
CameraSettles ==
  \/ TakePictureSettles
  \/ LaunchImageLibrarySettles
  \/ GoogleVisionSettles
  \/ GoogleRetrySettles
  \/ OcrSpaceSettles
  \/ TextExtracted
  \/ DelayElapses
  \/ HandlerFinally

Next ==
  \/ ExtractReceiptData
  \/ ExtractVendorAlone
  \/ ExtractDateAlone
  \/ ExtractTotalAlone
  \/ Tick
  \/ ValidateReceiptData
  \/ FormatReceiptForSharing
  \/ FormatDate
  \/ HandleTakePicture
  \/ HandlePickFromGallery
  \/ CameraSettles

Spec == Init /\ [][Next]_vars

\* every promise the camera flow awaits settles
LiveSpec == Spec /\ WF_vars(CameraSettles)

(***************************************************************************)
(* Properties                                                              *)
(***************************************************************************)
Returned == InParser /\ outcome = "returned"

C2_EmptyInput ==
  (InParser /\ text \in {Null, ""} /\ outcome # "none") =>
    /\ outcome = "returned"
    /\ rec = [vendor |-> Null, date |-> Null, total |-> Null, rawText |-> text]
    /\ invoked = {}

C2_EmptyCalled == Returned /\ text = "" /\ rec.rawText = ""

\* raw is txt without its leading and trailing whitespace
IsTrimmed(raw, txt) ==
  /\ raw = "" \/ (CharAt(raw, 1) \notin Space /\ CharAt(raw, Len(raw)) \notin Space)
  /\ \E i \in 0..(Len(txt) - Len(raw)) :
       /\ SubSeq(txt, i + 1, i + Len(raw)) = raw
       /\ \A k \in (1..i) \cup ((i + Len(raw) + 1)..Len(txt)) : CharAt(txt, k) \in Space

\* which of vendor, date and total a record has
Found(r) == <<r.vendor # Null, r.date # Null, r.total # Null>>

\* each of the eight combinations is what some text returns
EveryCombinationReturns ==
  \A v \in BOOLEAN, d \in BOOLEAN, t \in BOOLEAN :
    \E x \in Texts \ {""}, now \in ClockValues :
      \E r \in {extractReceiptData(x, now, 0)} : ~r.threw /\ Found(r.ret) = <<v, d, t>>

\* C3: for a non-empty text the call returns, rawText is the text without
\* its leading and trailing whitespace whatever the extractors find, and
\* each of the eight null/non-null combinations of vendor, date and total is
\* returned for some text.
C3_RawTextTrimmed ==
  /\ (InParser /\ text \notin {Null, ""} /\ outcome # "none") =>
       /\ outcome = "returned"
       /\ IsTrimmed(rec.rawText, text)
  /\ EveryCombinationReturns

C3_VendorOnly ==
  /\ Returned /\ text = "  Joe's Diner \n" /\ rec.rawText = "Joe's Diner"
  /\ Found(rec) = <<TRUE, FALSE, FALSE>>

TwoCalls == InParser /\ prev.outcome # "none"

\* C5, as the code has it: a second call on the same text gives the vendor,
\* the total and the rawText of the first, and the date of the first when
\* the clock shows the same day at both calls.
C5_Repeatable ==
  TwoCalls =>
    /\ outcome = prev.outcome
    /\ rec.vendor = prev.rec.vendor
    /\ rec.total = prev.rec.total
    /\ rec.rawText = prev.rec.rawText
    /\ prev.at = recAt => rec.date = prev.rec.date

C5_TwiceToday == TwoCalls /\ prev.at = recAt /\ text = "Paid today" /\ rec.date # Null

\* C5 as stated: a second call on the same text gives the result of the first.
C5_AsStated == TwoCalls => rec = prev.rec

Validated == InPreview /\ validation # NoValidation

\* the messages of the fields that are missing, in the order vendor, date, total
ExpectedErrors(d) ==
  SelectSeq(<<[missing |-> d.vendor \in {Null, ""}, message |-> "Vendor name not found"],
              [missing |-> d.date \in {Null, ""}, message |-> "Date not found"],
              [missing |-> d.total \in {Null, ""}, message |-> "Total amount not found"]>>,
            LAMBDA e : e.missing)

\* C6: validateReceiptData gives one message for each missing field, in the
\* order vendor, date, total, and isValid exactly when there is none; with
\* vendor and total present and the date null the result is isValid false
\* and the one message "Date not found".
C6_ErrorsInOrder ==
  Validated =>
    /\ validation.errors = [k \in 1..Len(ExpectedErrors(data)) |-> ExpectedErrors(data)[k].message]
    /\ validation.isValid = (validation.errors = <<>>)
    /\ (data.vendor \notin {Null, ""} /\ data.date = Null /\ data.total \notin {Null, ""}) =>
         validation = [isValid |-> FALSE, errors |-> <<"Date not found">>]

C6_DateMissing ==
  /\ Validated /\ data.vendor = "Joe's Diner" /\ data.date = Null /\ data.total = "$12.50"
  /\ validation.errors = <<"Date not found">>

\* C7, as the code has it: isValid is true exactly when vendor, date and
\* total are all neither null nor the empty string.
C7_ValidIffAllPresent ==
  Validated =>
    (validation.isValid <=> (\A f \in {data.vendor, data.date, data.total} : f \notin {Null, ""}))

C7_EmptyVendor ==
  /\ Validated /\ data.vendor = "" /\ data.date = "07/08/2025" /\ data.total = "$12.50"
  /\ ~validation.isValid

\* C7 as stated: isValid is true exactly when vendor, date and total are all
\* non-null.
C7_AsStated ==
  Validated =>
    (validation.isValid <=> (\A f \in {data.vendor, data.date, data.total} : f # Null))

Shared == InPreview /\ shared # Unset

\* C8: formatReceiptForSharing returns the fixed layout with a vendor line, a
\* date line and a total line, a field that is present written as it is and
\* a missing field (null or empty) as "Unknown Store", "Unknown Date" or
\* "Unknown Amount"; with all three null all three placeholders appear.
C8_Layout ==
  Shared =>
    shared = "[receipt] Receipt Summary\n\n"
               \o "[pin] Vendor: " \o (IF data.vendor \in {Null, ""} THEN "Unknown Store" ELSE data.vendor)
               \o "\n[calendar] Date: " \o (IF data.date \in {Null, ""} THEN "Unknown Date" ELSE data.date)
               \o "\n[money] Total: " \o (IF data.total \in {Null, ""} THEN "Unknown Amount" ELSE data.total)
               \o "\n\nGenerated by One-Click Receipt"

C8_AllNull ==
  /\ Shared /\ data.vendor = Null /\ data.date = Null /\ data.total = Null
  /\ includes(shared, "Vendor: Unknown Store\n")
  /\ includes(shared, "Date: Unknown Date\n")
  /\ includes(shared, "Total: Unknown Amount\n")

\* what the patterns find in the text of a parser session
Matched == matchCache[trim(text)]

\* C9, as the code has it: no call throws; extractVendor returns null exactly
\* when none of its steps answers, extractDate exactly when no date pattern
\* and no today indicator matches, extractTotal exactly when no pattern
\* matches an amount greater than zero; formatDate returns its argument
\* unchanged when the normalized string has fewer than three parts.
C9_NullWhenNothingFound ==
  /\ outcome # "threw"
  /\ (InParser /\ text # Null) =>
       /\ alone.vendor # Unset => (alone.vendor = Null <=> ~Matched.vendor)
       /\ alone.date # Unset => (alone.date = Null <=> ~Matched.date)
       /\ alone.total # Unset => (alone.total # TypeError /\ (alone.total = Null <=> ~Matched.positive))
  /\ (InFormat /\ formatted # Unset /\ Len(dateParts(dateStr)) < 3) => formatted = dateStr

C9_ZeroTotal ==
  /\ InParser /\ text = "Total: 0.00" /\ alone.total = Null /\ Matched.total
  /\ alone.vendor # Unset /\ alone.date = Null

\* C9 as stated: each extractor returns null exactly when none of its
\* patterns or steps matches.
C9_AsStated ==
  (InParser /\ text # Null) =>
    /\ alone.vendor # Unset => (alone.vendor = Null <=> ~Matched.vendor)
    /\ alone.date # Unset => (alone.date = Null <=> ~Matched.date)
    /\ alone.total # Unset => (alone.total = Null <=> ~Matched.total)

\* C10: a text that contains "Starbucks" yields the vendor "Starbucks".
C10_Starbucks ==
  (Returned /\ text # Null /\ includes(text, "Starbucks")) => rec.vendor = "Starbucks"

C10_StarBazaar == Returned /\ text = "Starbucks" /\ rec.vendor = "Star Bazaar"

\* the steps of extractVendor on the text of a parser session
Steps == vendorStepsCache[trim(text)]
VendorAlone == InParser /\ text # Null /\ alone.vendor # Unset

\* C11: extractVendor returns what step 1 finds if it finds something, else
\* what step 2 finds if it finds something, else what step 3 finds, else
\* null.
C11_FirstStepWins ==
  VendorAlone =>
    alone.vendor = (IF Steps.business # Null THEN Steps.business
                    ELSE IF Steps.lexicon # Null THEN Steps.lexicon
                    ELSE Steps.line)

C11_StepOneBeforeLexicon ==
  /\ VendorAlone /\ text = "STARBUCKS COFFEE\nStarbucks"
  /\ Steps.business = "Starbucks Coffee" /\ Steps.lexicon = "Star Bazaar" /\ Steps.line # Null
  /\ alone.vendor = "Starbucks Coffee"

\* the lines of the text without the blank ones
NonEmptyLines ==
  LET nonEmpty(l) == l # "" IN SelectSeq(Steps.lines, nonEmpty)

\* C12: the first of the first 5 non-empty lines that is a likely business
\* name is the vendor, however many blank lines stand before it; when step 1
\* and the lexicon find nothing, the first of the first 4 non-empty lines
\* that is a likely vendor name is the vendor.
C12_WindowsSkipBlankLines ==
  VendorAlone =>
    /\ firstBusinessName(NonEmptyLines) # 0 =>
         alone.vendor = formatVendorName(NonEmptyLines[firstBusinessName(NonEmptyLines)])
    /\ (firstBusinessName(NonEmptyLines) = 0 /\ Steps.lexicon = Null
          /\ firstVendorName(NonEmptyLines) # 0) =>
         alone.vendor = formatVendorName(NonEmptyLines[firstVendorName(NonEmptyLines)])

C12_BlankLinesFillWindow ==
  /\ VendorAlone /\ text = "x\n\n\n\n\nJoe's Diner"
  /\ Len(Steps.lines) = 6 /\ Len(NonEmptyLines) = 2
  /\ isLikelyBusinessName(NonEmptyLines[2])
  /\ alone.vendor = Null

\* C13: when step 2 answers and the text contains some lexicon entry
\* verbatim, the vendor is an entry the text contains verbatim.
C13_ExactBeforePartial ==
  (VendorAlone /\ Steps.step = 2 /\ Steps.exact # {}) =>
    \E k \in Steps.exact : alone.vendor = titleCase(knownVendors[k])

C13_RelianceFresh ==
  /\ VendorAlone /\ text = "bill reliance digital" /\ Steps.step = 2
  /\ \E k \in Steps.exact : knownVendors[k] = "reliance digital"
  /\ \A k \in Steps.exact : knownVendors[k] # "reliance fresh"
  /\ alone.vendor = "Reliance Fresh"

\* an entry hits: the text contains it, or it has several words and the
\* text contains one of them that is longer than 3 characters (any case)
EntryHits(k) ==
  LET inText(w) == includes(toLowerCase(trim(text)), w)
      anyWord(ws) == Len(ws) > 1 /\ \E i \in 1..Len(ws) : Len(ws[i]) > 3 /\ inText(ws[i])
  IN inText(knownVendors[k]) \/ anyWord(splitChar(knownVendors[k], " "))

\* C14: when step 1 finds nothing and some lexicon entry hits, the vendor is
\* the first entry, in declaration order, that hits, title-cased.
C14_FirstEntryInOrder ==
  (VendorAlone /\ Steps.business = Null /\ \E k \in DOMAIN knownVendors : EntryHits(k)) =>
    \E k \in DOMAIN knownVendors :
      /\ EntryHits(k) /\ \A j \in 1..(k - 1) : ~EntryHits(j)
      /\ alone.vendor = titleCase(knownVendors[k])

C14_MoreBeforeStarbucks ==
  /\ VendorAlone /\ text = "Starbucks\nmore" /\ Steps.business = Null
  /\ \E j, k \in DOMAIN knownVendors :
       /\ j < k /\ knownVendors[j] = "more" /\ knownVendors[k] = "starbucks"
       /\ EntryHits(j) /\ EntryHits(k)
  /\ alone.vendor = "More"

\* first character upper-cased, the remainder lower-cased
Capitalized(w) ==
  w = "" \/ (/\ CharAt(w, 1) = toUpperCase(CharAt(w, 1))
             /\ SubSeq(w, 2, Len(w)) = toLowerCase(SubSeq(w, 2, Len(w))))

\* C15: a vendor taken from a line (steps 1 and 3) consists of letters,
\* digits, white space, '&', apostrophe and '-' only, and each of its words,
\* whatever white space separates them, is capitalized.
C15_TitleCasedAndSanitized ==
  (VendorAlone /\ Steps.step \in {1, 3}) =>
    /\ \A i \in 1..Len(alone.vendor) :
         CharAt(alone.vendor, i) \in Letter \cup Digit \cup Space \cup {"&", "'", "-"}
    /\ LET each(words) == \A k \in 1..Len(words) : Capitalized(words[k])
       IN each(splitRuns(alone.vendor, Space))

C15_TabSeparatedWord ==
  /\ VendorAlone /\ text = "Joe\tand  sons ltd.!" /\ Steps.step = 1
  /\ alone.vendor = "Joe\tand  Sons Ltd"

\* the candidates of extractDate on the text of a parser session
Candidates == dateCandidatesCache[trim(text)]
DateAlone == InParser /\ text # Null /\ alone.date # Unset
IsNumericDate(ds) == matches(numericDate, ds)

\* C16: every candidate scores between 1 and 8; the date returned is the
\* normalization of the candidate of the highest score, the first
\* encountered among equals; so when some candidate has the shape
\* DD/MM/YYYY the date returned is the normalization of such a candidate.
C16_HighestScoreFirst ==
  (DateAlone /\ Candidates # <<>>) =>
    /\ \A j \in 1..Len(Candidates) : Candidates[j].score \in 1..8
    /\ \E j \in 1..Len(Candidates) :
         /\ \A o \in 1..Len(Candidates) : Candidates[o].score <= Candidates[j].score
         /\ \A o \in 1..(j - 1) : Candidates[o].score < Candidates[j].score
         /\ alone.date = formatDate(Candidates[j].str, alone.dateAt)
         /\ (\E o \in 1..Len(Candidates) : IsNumericDate(Candidates[o].str))
              => IsNumericDate(Candidates[j].str)

C16_NumericAfterMonthName ==
  /\ DateAlone /\ text = "7 Jul 2025\nDate: 07/08/2025"
  /\ Candidates[1].str = "7 Jul 2025" /\ Candidates[1].score = 3
  /\ \E o \in 2..Len(Candidates) : Candidates[o].str = "07/08/2025" /\ Candidates[o].score = 8
  /\ alone.date = "07/08/2025"

\* two digits, '/', two digits, '/', four digits
IsDDMMYYYY(s) ==
  /\ Len(s) = 10
  /\ \A i \in {1, 2, 4, 5, 7, 8, 9, 10} : CharAt(s, i) \in Digit
  /\ CharAt(s, 3) = "/" /\ CharAt(s, 6) = "/"

\* C17: a date returned for a text in which some date pattern matches has
\* the form DD/MM/YYYY.
C17_PatternDateIsDDMMYYYY ==
  (DateAlone /\ Candidates # <<>>) => IsDDMMYYYY(alone.date)

C17_IsoDate ==
  /\ DateAlone /\ text = "2025-08-07" /\ alone.dateAt.y = 2026
  /\ Len(Candidates) = 1 /\ Candidates[1].str = "2025-08-07"
  /\ alone.date = "2025/08/2007"

\* the date string holds the name of a month, whole or abbreviated
HasMonthName(ds) == \E k \in DOMAIN monthMap : includes(toLowerCase(ds), monthMap[k][1])
Formatted == InFormat /\ formatted # Unset

\* C18: a date string with a month name and three parts is normalized
\* without any letter left; "7 July 2025" and "7 Jul 2025" both give
\* "07/07/2025".
C18_MonthNamesReplaced ==
  Formatted =>
    /\ (HasMonthName(dateStr) /\ Len(dateParts(dateStr)) >= 3) =>
         \A i \in 1..Len(formatted) : CharAt(formatted, i) \notin Letter
    /\ dateStr \in {"7 July 2025", "7 Jul 2025"} => formatted = "07/07/2025"

C18_July ==
  /\ Formatted /\ dateStr = "7 July 2025" /\ HasMonthName(dateStr)
  /\ formatted = "07/07y/2025"

AllDigits(s) == \A i \in 1..Len(s) : CharAt(s, i) \in Digit

\* C19: when the third part of the date string is a 2-digit year yy, the
\* year of the result is floor(currentYear / 100) * 100 + yy; a 4-digit year
\* is the year of the result as it stands; "07 Jul 24" gives "07/07/2024"
\* while the current year is in 2000..2099.
C19_TwoDigitYearInCurrentCentury ==
  Formatted =>
    /\ LET year(parts) ==
             Len(parts) >= 3 =>
               /\ (Len(parts[3]) = 2 /\ AllDigits(parts[3])) =>
                    formatted = padStart2(parts[1]) \o "/" \o padStart2(parts[2]) \o "/"
                                  \o ToString((formattedAt.y \div 100) * 100 + digitsVal(parts[3]))
               /\ (Len(parts[3]) = 4 /\ AllDigits(parts[3])) =>
                    formatted = padStart2(parts[1]) \o "/" \o padStart2(parts[2]) \o "/" \o parts[3]
       IN year(dateParts(dateStr))
    /\ (dateStr = "07 Jul 24" /\ formattedAt.y \in 2000..2099) => formatted = "07/07/2024"

C19_Year24 ==
  /\ Formatted /\ dateStr = "07 Jul 24" /\ formattedAt.y = 2026
  /\ formatted = "07/07/2024"

\* the text holds "today", "now" or "current", in any case
ContainsToday ==
  \E w \in {"today", "now", "current"} : includes(toLowerCase(trim(text)), w)

\* C20: when a date pattern matches, the date is the normalized best match,
\* whether or not the text speaks of today; when none matches and the text
\* holds a today phrase, it is the date of the clock; otherwise it is null.
C20_TodayOnlyAsFallback ==
  DateAlone =>
    /\ Candidates # <<>> =>
         alone.date = formatDate(bestDateMatchCache[trim(text)], alone.dateAt)
    /\ (Candidates = <<>> /\ ContainsToday) => alone.date = todayString(alone.dateAt)
    /\ (Candidates = <<>> /\ ~ContainsToday) => alone.date = Null

C20_PatternBesideToday ==
  /\ DateAlone /\ text = "2025-08-07 today" /\ ContainsToday /\ Candidates # <<>>
  /\ alone.date \notin {Null, todayString(alone.dateAt)}

\* the candidates of extractTotal on the text of a parser session
TotalCands == totalCandidatesCache[trim(text)]
TotalAlone == InParser /\ text # Null /\ alone.total # Unset
TopScore == Max({TotalCands[j].c.priority : j \in 1..Len(TotalCands)})
TopAmount ==
  Max({TotalCands[j].c.amount : j \in {o \in 1..Len(TotalCands) : TotalCands[o].c.priority = TopScore}})

\* C21: the total is written from the largest amount among the candidates
\* of the highest score, whatever their patterns and their places.
C21_HighestScoreThenAmount ==
  (TotalAlone /\ TotalCands # <<>>) =>
    alone.total = currencySymbol(trim(text)) \o formatAmount(TopAmount)

C21_LargerAmountLater ==
  /\ TotalAlone /\ text = "$12.50 $35.46"
  /\ \E i, j \in 1..Len(TotalCands) :
       /\ i < j /\ TotalCands[i].c.priority = TopScore /\ TotalCands[j].c.priority = TopScore
       /\ TotalCands[i].c.amount = 1250 /\ TotalCands[j].c.amount = 3546
  /\ alone.total = "$35.46"

\* what a candidate scored beyond its pattern's priority, its decimal
\* point, its size and its roundness: the end-of-text bonus it was given
EndBonus(x) ==
  x.c.priority - x.tier
    - (IF includes(x.c.raw, ".") THEN 2 ELSE 0)
    - (IF x.c.amount >= 1000 /\ x.c.amount <= 10000000 THEN 3 ELSE 0)
    - (IF x.c.amount % 500 = 0 THEN 1 ELSE 0)

\* C22: a candidate is given the bonus of 2 exactly when the offset of its
\* own match lies in the last 30% of the text.
C22_BonusByOwnOffset ==
  TotalAlone =>
    \A j \in 1..Len(TotalCands) :
      /\ EndBonus(TotalCands[j]) \in {0, 2}
      /\ EndBonus(TotalCands[j]) = 2 <=> 10 * TotalCands[j].index > 7 * Len(trim(text))

C22_LateMatchWithoutBonus ==
  /\ TotalAlone /\ text = "$20.10 $40.55 paid by card $20.10"
  /\ \E j \in 1..Len(TotalCands) :
       /\ TotalCands[j].tier = 9 /\ TotalCands[j].index = 27 /\ TotalCands[j].c.amount = 2010
       /\ 10 * TotalCands[j].index > 7 * Len(trim(text))
       /\ EndBonus(TotalCands[j]) = 0
  /\ alone.total = "$40.55"

\* the rupee sign as texts carry it, and a total that was found
RupeeSign == "~"
TotalFound == TotalAlone /\ alone.total \notin {Null, TypeError}

\* the text holds '$', or aud, usd, cad, balance due or tendered in any case
DollarText ==
  \/ includes(trim(text), "$")
  \/ \E w \in {"aud", "usd", "cad", "tendered", "balance due", "balancedue"} :
       includes(toLowerCase(trim(text)), w)

\* C23: a total that is not null begins with '$' when the text holds a
\* dollar indicator and with the rupee sign otherwise, whichever candidate
\* won.
C23_SymbolFromWholeText ==
  TotalFound =>
    alone.total = (IF DollarText THEN "$" ELSE RupeeSign) \o formatAmount(TopAmount)

C23_DefaultLiteral ==
  /\ TotalFound /\ text = "Total: ~235.00" /\ ~DollarText
  /\ alone.total = RupeeLiteral \o "235"
  /\ RupeeLiteral # RupeeSign

\* the total without its currency symbol
AmountText ==
  IF SubSeq(alone.total, 1, 1) = "$" THEN SubSeq(alone.total, 2, Len(alone.total))
  ELSE SubSeq(alone.total, Len(RupeeLiteral) + 1, Len(alone.total))

\* C24: a total that is not null is the currency symbol and then the
\* winning amount: digits only when the amount is whole, else digits, a
\* point and exactly two digits.
C24_WholeOrTwoDecimals ==
  TotalFound =>
    /\ alone.total = currencySymbol(trim(text)) \o AmountText
    /\ TopAmount % 100 = 0 =>
         AllDigits(AmountText) /\ 100 * digitsVal(AmountText) = TopAmount
    /\ TopAmount % 100 # 0 =>
         /\ Len(AmountText) >= 4 /\ CharAt(AmountText, Len(AmountText) - 2) = "."
         /\ AllDigits(SubSeq(AmountText, 1, Len(AmountText) - 3))
         /\ AllDigits(SubSeq(AmountText, Len(AmountText) - 1, Len(AmountText)))
         /\ 100 * digitsVal(SubSeq(AmountText, 1, Len(AmountText) - 3))
              + digitsVal(SubSeq(AmountText, Len(AmountText) - 1, Len(AmountText))) = TopAmount

C24_TwoDecimals ==
  /\ TotalFound /\ text = "TOTAL $35.46\nVISA $35.46" /\ TopAmount = 3546
  /\ alone.total = "$35.46"

\* C25: a text with "TOTAL $35.46" and no rupee sign gives the total
\* "$35.46"; a text with "Total: <rupee sign>235.00" and no dollar indicator
\* gives the rupee sign and "235.00".
C25_CurrencyInference ==
  TotalAlone =>
    /\ (includes(text, "TOTAL $35.46") /\ ~includes(text, RupeeSign)) => alone.total = "$35.46"
    /\ (includes(text, "Total: " \o RupeeSign \o "235.00") /\ ~DollarText) =>
         alone.total = RupeeSign \o "235.00"

C25_Rupees235 ==
  /\ TotalAlone /\ text = "Total: " \o RupeeSign \o "235.00" /\ ~DollarText
  /\ TopAmount = 23500
  /\ alone.total = "%=;235"

\* C26: in a record returned by extractReceiptData vendor, date and total
\* are each null or a string that is not empty, and validateReceiptData
\* finds the record valid exactly when none of the three is null.
C26_NoEmptyField ==
  Returned =>
    /\ rec.vendor # "" /\ rec.date # "" /\ rec.total # ""
    /\ validateReceiptData(rec).isValid
         <=> (rec.vendor # Null /\ rec.date # Null /\ rec.total # Null)

C26_TodayWithoutTotal ==
  /\ Returned /\ text = "Joe's Diner\ntoday"
  /\ rec.vendor = "Joe's Diner" /\ rec.date = todayString(recAt) /\ rec.total = Null
  /\ ~validateReceiptData(rec).isValid

\* extractTextFromImage has resolved
Resolved == ocr.pc = "resolved"

\* the Google Vision result whose text was returned
UsedResult == IF ocr.source = "retry" THEN ocr.retry ELSE ocr.google

\* the fallback was called
SpaceCalled == ocr.space # Unset

\* C27: extractTextFromImage resolves with a string: a Google Vision result
\* is used only if its trimmed text is longer than 5 characters, OCR.space is
\* called only when the first Google result is absent or too short, the
\* retry replaces the first result only with a strictly greater confidence,
\* and when both services fail the cleaned mock receipt is returned.
C27_GoogleTextLongerThan5 ==
  Resolved =>
    /\ ocr.ret # Unset /\ ocr.ret # Null
    /\ ocr.source \in {"google", "retry"} =>
         UsedResult # NullResult /\ Len(trim(UsedResult.text)) > 5
    /\ SpaceCalled <=> (ocr.google = NullResult \/ Len(trim(ocr.google.text)) <= 5)
    /\ ocr.source = "retry" => ocr.retry.confidence > ocr.google.confidence
    /\ ocr.source = "space" => ocr.ret = processOCRResult(ocr.space)
    /\ ocr.source = "mock" <=>
         (SpaceCalled /\ (ocr.space = Null \/ Len(trim(ocr.space)) <= 5))
    /\ ocr.source = "mock" => ocr.ret \in {processOCRResult(m) : m \in MockResults}

C27_ShortRetryReturned ==
  /\ Resolved /\ ocr.source = "retry"
  /\ ocr.google = [text |-> "KFC\r\nTotal  $12.50", confidence |-> 50]
  /\ ocr.retry = [text |-> "ab", confidence |-> 90]
  /\ ~SpaceCalled
  /\ ocr.ret = "ab"

\* the text extractTextFromImage cleaned before it returned
RawTextUsed ==
  CASE ocr.source = "retry" -> {ocr.retry.text}
    [] ocr.source = "google" -> {ocr.google.text}
    [] ocr.source = "space" -> {ocr.space}
    [] OTHER -> MockResults

\* no whitespace but single spaces between other characters
SingleSpaced(s) ==
  /\ \A i \in 1..Len(s) : CharAt(s, i) \in Space => CharAt(s, i) = " "
  /\ \A i \in 1..Len(s) - 1 : ~(CharAt(s, i) = " " /\ CharAt(s, i + 1) = " ")
  /\ s = trim(s)

\* C28: a text returned by extractTextFromImage has passed processOCRResult,
\* which is idempotent and turns every whitespace run into one space: the
\* text has no line break, and the text the camera flow hands to
\* extractReceiptData is one line for the vendor extractor, the whole text.
C28_ReturnedTextIsOneLine ==
  /\ Resolved =>
       /\ \E rawText \in RawTextUsed : ocr.ret = processOCRResult(rawText)
       /\ processOCRResult(ocr.ret) = ocr.ret
       /\ SingleSpaced(ocr.ret) /\ ~includes(ocr.ret, "\n")
  /\ cam.pc = "delay" => cam.parsedOn = ocr.ret
  /\ cam.parsedOn # Unset =>
       /\ linesOf(cam.parsedOn) = <<cam.parsedOn>>
       /\ SingleSpaced(cam.parsedOn)

C28_LineBreaksCollapsed ==
  /\ Resolved /\ ocr.source = "google" /\ ocr.google.text = "KFC\r\nTotal  $12.50"
  /\ cam.pc = "delay" /\ cam.parsedOn = "KFC Total $12.50"
  /\ cam.receiptData.vendor = "Kfc Total 1250"

\* the camera screen at rest
AtRest ==
  cam.pc = "idle" /\ ~cam.isProcessing /\ cam.ocrProgress = 0 /\ cam.ocrStatus = ""

\* router.push was called
Pushed == cam.pushed # NoPush

\* navigation only with a text that is not empty after trimming, and
\* extractReceiptData never called on an empty text
NonEmptyTextOnly ==
  /\ Pushed => cam.pushed.extractedText = cam.parsedOn /\ Len(trim(cam.parsedOn)) > 0
  /\ cam.parsedOn # Unset => Len(trim(cam.parsedOn)) > 0
  /\ cam.pc = "idle" => AtRest

\* C29: every capture or gallery-pick flow ends idle, with isProcessing
\* false, ocrProgress 0 and ocrStatus '', whatever OCR and the user do; the
\* preview is pushed only with a text that is not empty after trimming, and
\* extractReceiptData is never called on an empty text.
C29_FlowEndsIdle ==
  /\ [](InCamera => NonEmptyTextOnly)
  /\ ((InCamera /\ cam.pc # "idle") ~> AtRest)

C29_IdleAfterPush ==
  /\ AtRest /\ cam.flows = 1 /\ Pushed
  /\ cam.pushed.vendor = "Kfc Total 1250" /\ cam.pushed.total = "$12.50" /\ cam.pushed.date = ""

\* the raw matches of the candidates that give the winning amount
TopRaws ==
  {TotalCands[j].c.raw :
     j \in {o \in 1..Len(TotalCands) :
              TotalCands[o].c.priority = TopScore /\ TotalCands[o].c.amount = TopAmount}}

\* C30: the amount of the total is the value of one numeric token on one
\* line: digit groups with whitespace or a line break between them are not
\* joined, and "Total 35" with "12 items" on the next line does not give 3512.
C30_OneTokenOnOneLine ==
  TotalFound =>
    /\ \A raw \in TopRaws : \A i \in 1..Len(raw) : CharAt(raw, i) \notin Space
    /\ text = "Total 35\n12 items" => TopAmount # 351200

C30_JoinedAcrossLines ==
  /\ TotalFound /\ text = "Total 35\n12 items"
  /\ TopRaws = {"35\n12"} /\ TopAmount = 351200
  /\ alone.total = RupeeLiteral \o "3512"

=============================================================================
